---- MODULE Spec2Model ----
(***************************************************************************)
(* Cursor chat extraction engine of contextmemory (package cursor) and the *)
(* memory-naming step of cmctl import-cursor-chat.                         *)
(*                                                                         *)
(* Strings that the code searches or slices are sequences of one-character *)
(* strings; identifiers that are only compared for equality are TLA+       *)
(* strings.  Times are whole seconds, timestamps are milliseconds.         *)
(***************************************************************************)
EXTENDS Integers, Sequences, FiniteSets, TLC

(***************************************************************************)
(* models.go: byte-wise helpers                                            *)
(***************************************************************************)
UpperToLower ==
  ("A" :> "a") @@ ("B" :> "b") @@ ("C" :> "c") @@ ("D" :> "d") @@ ("E" :> "e") @@ ("F" :> "f") @@ ("G" :> "g") @@ ("H" :> "h") @@ ("I" :> "i") @@ ("J" :> "j") @@ ("K" :> "k") @@ ("L" :> "l") @@ ("M" :> "m") @@ ("N" :> "n") @@ ("O" :> "o") @@ ("P" :> "p") @@ ("Q" :> "q") @@ ("R" :> "r") @@ ("S" :> "s") @@ ("T" :> "t") @@ ("U" :> "u") @@ ("V" :> "v") @@ ("W" :> "w") @@ ("X" :> "x") @@ ("Y" :> "y") @@ ("Z" :> "z")

toLowerByte(r) == IF r \in DOMAIN UpperToLower THEN UpperToLower[r] ELSE r

toLower(s) == [i \in 1..Len(s) |-> toLowerByte(s[i])]

\* index (0-based) of the first occurrence, -1 when there is none
findIgnoreCase(text, substr) ==
  LET textLower == toLower(text)
      substrLower == toLower(substr)
      hits == {i \in 0..(Len(textLower) - Len(substrLower)) :
                 SubSeq(textLower, i + 1, i + Len(substrLower)) = substrLower}
  IN IF hits = {} THEN -1 ELSE CHOOSE i \in hits : \A j \in hits : i <= j

containsIgnoreCase(text, substr) ==
  /\ Len(text) >= Len(substr)
  /\ \/ text = substr
     \/ /\ Len(text) > Len(substr)
        /\ findIgnoreCase(text, substr) >= 0

\* the back-quote byte, which has no literal in this notation
BackQuote == "bq"

(***************************************************************************)
(* parser: role markers                                                    *)
(***************************************************************************)
userMarkers ==
  << <<"@">>,
     <<"?">>,
     <<"C","a","n"," ","y","o","u">>,
     <<"H","o","w"," ","d","o"," ","I">>,
     <<"W","h","a","t"," ","i","s">>,
     <<"P","l","e","a","s","e">>,
     <<"I"," ","w","a","n","t">>,
     <<"I"," ","n","e","e","d">>,
     <<"L","e","t","'","s">>,
     <<"C","o","u","l","d"," ","y","o","u">>,
     <<"W","o","u","l","d"," ","y","o","u">>,
     <<"S","h","o","w"," ","m","e">>,
     <<"H","e","l","p"," ","m","e">>,
     <<"I","'","m"," ","t","r","y","i","n","g">> >>

containsUserMarkers(content) ==
  \E k \in 1..Len(userMarkers) : containsIgnoreCase(content, userMarkers[k])

assistantMarkers ==
  << <<"I","'","l","l">>,
     <<"I"," ","c","a","n">>,
     <<"L","e","t"," ","m","e">>,
     <<"H","e","r","e","'","s">>,
     <<"Y","o","u"," ","c","a","n">>,
     <<"T","h","i","s"," ","w","i","l","l">>,
     <<BackQuote,BackQuote,BackQuote>>,
     <<"H","e","r","e"," ","a","r","e">>,
     <<"T","o"," ","d","o"," ","t","h","i","s">>,
     <<"F","i","r","s","t",",">>,
     <<"N","e","x","t",",">>,
     <<"F","i","n","a","l","l","y",",">>,
     <<"#","#"," ">>,
     <<"#","#","#"," ">>,
     <<"*","*">>,
     <<"-"," ","[">>,
     <<"1","."," ">>,
     <<"2","."," ">>,
     <<"3","."," ">> >>

containsAssistantMarkers(content) ==
  \E k \in 1..Len(assistantMarkers) : containsIgnoreCase(content, assistantMarkers[k])

(***************************************************************************)
(* Values of the data model (models.go).  A time.Time is a whole number of *)
(* seconds since the epoch; the zero time.Time lies before the epoch.      *)
(***************************************************************************)
ZeroTime == -1

IsZero(t) == t < 0

\* time.Unix(sec, 0)
TimeUnix(sec) == sec

RoleUser == <<"u","s","e","r">>
RoleAssistant == <<"a","s","s","i","s","t","a","n","t">>
RoleSystem == <<"s","y","s","t","e","m">>

DigitChars == <<"0","1","2","3","4","5","6","7","8","9">>

RECURSIVE Digits(_)
\* decimal rendering of a natural number (fmt %d)
Digits(n) ==
  IF n < 10 THEN <<DigitChars[n + 1]>>
  ELSE Append(Digits(n \div 10), DigitChars[(n % 10) + 1])

SecondsPerDay == 86400

\* Time.Format("2006-01-02"): the calendar day, rendered as its day number
FormatDate(t) == Digits(t \div SecondsPerDay)

\* Time.Format("2006-01-02 15:04:05"): the day, a space, the time of day
FormatDateTime(t) == FormatDate(t) \o <<" ">> \o Digits(t % SecondsPerDay)

LowerToUpper ==
  ("a" :> "A") @@ ("b" :> "B") @@ ("c" :> "C") @@ ("d" :> "D") @@ ("e" :> "E") @@ ("f" :> "F") @@ ("g" :> "G") @@ ("h" :> "H") @@ ("i" :> "I") @@ ("j" :> "J") @@ ("k" :> "K") @@ ("l" :> "L") @@ ("m" :> "M") @@ ("n" :> "N") @@ ("o" :> "O") @@ ("p" :> "P") @@ ("q" :> "Q") @@ ("r" :> "R") @@ ("s" :> "S") @@ ("t" :> "T") @@ ("u" :> "U") @@ ("v" :> "V") @@ ("w" :> "W") @@ ("x" :> "X") @@ ("y" :> "Y") @@ ("z" :> "Z")

\* cases.Title(language.English, cases.NoLower): the first letter of every
\* word is upper-cased, the other letters are left as they are
TitleCase(s) ==
  [i \in 1..Len(s) |->
     IF (i = 1 \/ s[i - 1] = " ") /\ s[i] \in DOMAIN LowerToUpper
     THEN LowerToUpper[s[i]] ELSE s[i]]

(***************************************************************************)
(* Decoded JSON values.  The value stored under a key is a record whose    *)
(* field shape says what the document is ("array", "object", or "invalid"  *)
(* for anything else, text that is not JSON included); an array carries    *)
(* its decoded elements in items, an object its decoded fields.            *)
(*   prompt      [Text, Timestamp, Role, CreatedAt]                        *)
(*   composer    [Type, ComposerID, Name, CreatedAt, UnifiedMode, Messages]*)
(*   generation  [UnixMs, GenerationUUID, Type, TextDescription,           *)
(*                ConversationID, Role]                                    *)
(*   chat tab    [ID, Title, Messages, Timestamp, CreatedAt]               *)
(*   message     [ID, Role, Content, Timestamp, CreatedAt]                 *)
(***************************************************************************)
Message(id, role, content, timestamp, createdAt) ==
  [ID |-> id, Role |-> role, Content |-> content, Timestamp |-> timestamp,
   CreatedAt |-> createdAt]

ChatTab(id, title, messages, timestamp, createdAt) ==
  [ID |-> id, Title |-> title, Messages |-> messages, Timestamp |-> timestamp,
   CreatedAt |-> createdAt]

\* all orders in which the elements of a finite set can be enumerated
Orders(S) ==
  {f \in [1..Cardinality(S) -> S] : \A i, j \in 1..Cardinality(S) : f[i] = f[j] => i = j}

RECURSIVE SortedOrders(_, _)
\* every order of the index set idx in which no index comes after one that
\* before relates it to (before is a set of pairs <<i, j>>)
SortedOrders(idx, before) ==
  IF idx = {} THEN {<<>>}
  ELSE UNION {{<<i>> \o rest : rest \in SortedOrders(idx \ {i}, before)} :
                i \in {m \in idx : \A j \in idx : <<j, m>> \notin before}}

\* sort.Slice(s, less): any rearrangement of s that less accepts as sorted
\* (the sort is not stable, equal elements may come out in either order);
\* before holds the pairs of positions <<i, j>> with less(s[i], s[j])
SortSlice(s, before) ==
  {[k \in 1..Len(s) |-> s[p[k]]] : p \in SortedOrders(1..Len(s), before)}

\* the pairs of positions of s that the comparison relates
Positions(s) == (1..Len(s)) \X (1..Len(s))

(***************************************************************************)
(* parser: aiService.prompts                                               *)
(***************************************************************************)
AIServiceChatTitle == <<"A","I"," ","S","e","r","v","i","c","e"," ","C","h","a","t">>

PromptLengthThreshold == 200

\* role of one prompt
promptRole(prompt, i) ==
  IF prompt.Role # <<>> THEN prompt.Role
  ELSE IF Len(prompt.Text) > 0
       THEN IF Len(prompt.Text) > PromptLengthThreshold \/ containsAssistantMarkers(prompt.Text)
            THEN RoleAssistant
            ELSE RoleUser
       ELSE RoleUser

\* timestamp of one prompt, read at time now
promptTimestamp(prompt, now) ==
  LET t1 == IF prompt.Timestamp = 0 /\ ~IsZero(prompt.CreatedAt)
            THEN prompt.CreatedAt * 1000 ELSE prompt.Timestamp
  IN IF t1 = 0 THEN now * 1000 ELSE t1

\* result [err, chatTab]: chatTab is a sequence holding the tab, empty for nil
parseAIServicePromptsToSingleChat(value, now) ==
  IF value.shape \notin {"array", "object"}
  THEN [err |-> TRUE, chatTab |-> <<>>]
  ELSE
    LET prompts == IF value.shape = "array" THEN value.items ELSE <<value.item>>
        messages == [k \in 1..Len(prompts) |->
                       Message("prompt-" \o ToString(k - 1),
                               promptRole(prompts[k], k - 1),
                               prompts[k].Text,
                               promptTimestamp(prompts[k], now),
                               ZeroTime)]
    IN IF Len(prompts) = 0
       THEN [err |-> FALSE, chatTab |-> <<>>]
       ELSE [err |-> FALSE,
             chatTab |-> <<ChatTab("ai-service-" \o ToString(now), AIServiceChatTitle,
                                   messages, now * 1000, now)>>]

\* variant of parseAIServicePromptsWithTitles that leaves the placeholder title
parseAIServicePromptsKeepTitle(value, composerTitles, now, order) ==
  LET single == parseAIServicePromptsToSingleChat(value, now)
  IN IF single.err THEN [err |-> TRUE, tabs |-> <<>>]
     ELSE [err |-> FALSE, tabs |-> single.chatTab]

\* composerTitles is a function from composer id to title; order is the
\* order in which the map iteration yields its keys
parseAIServicePromptsWithTitles(value, composerTitles, now, order) ==
  LET single == parseAIServicePromptsToSingleChat(value, now)
      n == Cardinality(DOMAIN composerTitles)
      chatTab == single.chatTab[1]
      usable == {k \in 1..n : chatTab.Title = AIServiceChatTitle /\ composerTitles[order[k]] # <<>>}
      title == IF n = 1 THEN composerTitles[order[1]]
               ELSE IF n > 1 /\ usable # {}
                    THEN composerTitles[order[CHOOSE k \in usable : \A j \in usable : k <= j]]
                    ELSE chatTab.Title
  IN IF single.err THEN [err |-> TRUE, tabs |-> <<>>]
     ELSE IF single.chatTab = <<>> THEN [err |-> FALSE, tabs |-> <<>>]
     ELSE [err |-> FALSE, tabs |-> <<[chatTab EXCEPT !.Title = title]>>]

(***************************************************************************)
(* parser.go: the earlier copy of the aiService.prompts parser.  Its       *)
(* results carry a field panic that says that the call ends in a run-time  *)
(* panic.                                                                  *)
(***************************************************************************)
\* role of one prompt: by position, unless the prompt names one
promptRoleByIndex(prompt, i) ==
  IF prompt.Role # <<>> THEN prompt.Role
  ELSE IF i % 2 = 1 THEN RoleAssistant ELSE RoleUser

parseAIServicePromptsToSingleChatEarlier(value, now) ==
  IF value.shape \notin {"array", "object"}
  THEN [err |-> TRUE, chatTab |-> <<>>]
  ELSE
    LET prompts == IF value.shape = "array" THEN value.items ELSE <<value.item>>
        messages == [k \in 1..Len(prompts) |->
                       Message("prompt-" \o ToString(k - 1),
                               promptRoleByIndex(prompts[k], k - 1),
                               prompts[k].Text,
                               promptTimestamp(prompts[k], now),
                               ZeroTime)]
    IN IF Len(prompts) = 0
       THEN [err |-> FALSE, chatTab |-> <<>>]
       ELSE [err |-> FALSE,
             chatTab |-> <<ChatTab("ai-service-" \o ToString(now), AIServiceChatTitle,
                                   messages, now * 1000, now)>>]

\* the nil chat tab of an empty prompt list is dereferenced
parseAIServicePromptsWithTitlesEarlier(value, composerTitles, now, order) ==
  LET single == parseAIServicePromptsToSingleChatEarlier(value, now)
      n == Cardinality(DOMAIN composerTitles)
      chatTab == single.chatTab[1]
      usable == {k \in 1..n : chatTab.Title = AIServiceChatTitle /\ composerTitles[order[k]] # <<>>}
      title == IF n = 1 THEN composerTitles[order[1]]
               ELSE IF n > 1 /\ usable # {}
                    THEN composerTitles[order[CHOOSE k \in usable : \A j \in usable : k <= j]]
                    ELSE chatTab.Title
  IN IF single.err THEN [err |-> TRUE, panic |-> FALSE, tabs |-> <<>>]
     ELSE IF single.chatTab = <<>> THEN [err |-> FALSE, panic |-> TRUE, tabs |-> <<>>]
     ELSE [err |-> FALSE, panic |-> FALSE, tabs |-> <<[chatTab EXCEPT !.Title = title]>>]

(***************************************************************************)
(* parser: composer.composerData                                           *)
(***************************************************************************)
composerTitle(composer) ==
  IF composer.Name # <<>> THEN composer.Name
  ELSE IF composer.UnifiedMode # <<>>
       THEN TitleCase(composer.UnifiedMode) \o <<" ","C","h","a","t">>
       ELSE <<"C","o","m","p","o","s","e","r"," ","C","h","a","t">>

composerTab(composer) ==
  LET createdAt == TimeUnix(composer.CreatedAt \div 1000)
      placeholder ==
        Message("composer-info", RoleSystem,
                <<"C","o","m","p","o","s","e","r"," ","s","e","s","s","i","o","n",":"," ">>
                  \o composer.UnifiedMode
                  \o <<" ","m","o","d","e",","," ","c","r","e","a","t","e","d"," ","a","t"," ">>
                  \o FormatDateTime(createdAt),
                composer.CreatedAt, ZeroTime)
  IN ChatTab(composer.ComposerID, composerTitle(composer),
             IF Len(composer.Messages) = 0 THEN <<placeholder>> ELSE composer.Messages,
             composer.CreatedAt, createdAt)

IsHead(composer) == composer.Type = "head"

parseComposerData(value) ==
  IF value.shape # "object" THEN [err |-> TRUE, tabs |-> <<>>]
  ELSE LET heads == SelectSeq(value.allComposers, IsHead)
       IN [err |-> FALSE, tabs |-> [k \in 1..Len(heads) |-> composerTab(heads[k])]]

(***************************************************************************)
(* parser: aiService.generations                                           *)
(***************************************************************************)
ContentLengthThreshold == 300

determineRoleFromContent(content, index) ==
  IF containsAssistantMarkers(content) THEN RoleAssistant
  ELSE IF containsUserMarkers(content) THEN RoleUser
  ELSE IF Len(content) > ContentLengthThreshold THEN RoleAssistant
  ELSE RoleUser

\* role of the message made from the record at position i of its group
generationRole(gen, i) == determineRoleFromContent(gen.TextDescription, i)

IsChatGeneration(gen) == gen.Type = "composer"

generationKeyOwn(gen) == gen.GenerationUUID

generationKey(gen) ==
  IF gen.ConversationID = "" THEN gen.GenerationUUID ELSE gen.ConversationID

UnixMsLess(a, b) == a.UnixMs < b.UnixMs

sortByUnixMs(generations) ==
  SortSlice(generations, {<<i, j>> \in Positions(generations) :
                            UnixMsLess(generations[i], generations[j])})

HasDescription(gen) == gen.TextDescription # <<>>

\* the chat tab of one group, given the group's records in sorted order
generationTab(convGenerations, composerTitles) ==
  LET described == {i \in 1..Len(convGenerations) : HasDescription(convGenerations[i])}
      \* position in convGenerations of the k-th record that has a description
      pos[k \in 1..Cardinality(described)] ==
        CHOOSE i \in described : Cardinality({j \in described : j < i}) = k - 1
      messages == [k \in 1..Cardinality(described) |->
                     LET gen == convGenerations[pos[k]]
                     IN Message(gen.GenerationUUID, generationRole(gen, pos[k] - 1),
                                gen.TextDescription, gen.UnixMs,
                                TimeUnix(gen.UnixMs \div 1000))]
      title == IF Cardinality(DOMAIN composerTitles) = 1
               THEN composerTitles[CHOOSE id \in DOMAIN composerTitles : TRUE]
               ELSE AIServiceChatTitle
  IN ChatTab("generations-" \o ToString(convGenerations[1].UnixMs), title, messages,
             convGenerations[Len(convGenerations)].UnixMs,
             TimeUnix(convGenerations[1].UnixMs \div 1000))

HasMessages(tab) == Len(tab.Messages) > 0

\* The set of results the parser can return: the groups are visited in the
\* iteration order of a map, and each group is sorted by an unstable sort.
parseAIServiceGenerations(value, composerTitles) ==
  IF value.shape # "array" THEN {[err |-> TRUE, tabs |-> <<>>]}
  ELSE
    LET chat == SelectSeq(value.items, IsChatGeneration)
        keys == {generationKey(chat[i]) : i \in 1..Len(chat)}
        group(key) == LET InGroup(gen) == generationKey(gen) = key
                      IN SelectSeq(chat, InGroup)
        sortings == {f \in [keys -> UNION {sortByUnixMs(group(k)) : k \in keys}] :
                       \A k \in keys : f[k] \in sortByUnixMs(group(k))}
    IN {[err |-> FALSE,
         tabs |-> SelectSeq([i \in 1..Cardinality(keys) |->
                               generationTab(sorted[order[i]], composerTitles)],
                            HasMessages)] :
          order \in Orders(keys), sorted \in sortings}

(***************************************************************************)
(* reader: the workspace storage directory and its stores.                 *)
(* StoragePath is [Readable, Entries, File]: Readable says that            *)
(* os.ReadDir(StoragePath) succeeds, which it does not when the path names *)
(* a file; File holds the store when the path names a store file and is    *)
(* empty otherwise.  An entry is                                           *)
(*   [Name, IsDir, HasStore, Opens, Reads, Items, ModTime]                 *)
(* where HasStore says that <Name>/state.vscdb exists, Opens that the      *)
(* store can be opened, Reads that its rows can be queried, and Items maps *)
(* the keys of ItemTable to their decoded values.                          *)
(***************************************************************************)
ChatDataKey == "workbench.panel.aichat.view.aichat.chatdata"
PromptsKey == "aiService.prompts"
GenerationsKey == "aiService.generations"
ComposerKey == "composer.composerData"

chatKeys == <<ChatDataKey, PromptsKey, ComposerKey>>

WorkspacePath(entry) == entry.Name \o "/state.vscdb"

\* result [err, workspaces]: the entries that are workspaces, in directory order
FindWorkspaces(storage) ==
  LET IsWorkspace(entry) == entry.IsDir /\ entry.HasStore
  IN IF ~storage.Readable THEN [err |-> TRUE, workspaces |-> <<>>]
     ELSE [err |-> FALSE, workspaces |-> SelectSeq(storage.Entries, IsWorkspace)]

\* variant of ModTimeAfter that puts the oldest store first
ModTimeBefore(a, b) == a.ModTime < b.ModTime

ModTimeAfter(a, b) == a.ModTime > b.ModTime

sortByModTime(workspaces) ==
  SortSlice(workspaces, {<<i, j>> \in Positions(workspaces) :
                           ModTimeAfter(workspaces[i], workspaces[j])})

\* the set of results [err, workspace] the call can return
GetLatestWorkspace(storage) ==
  LET found == FindWorkspaces(storage)
  IN IF found.err \/ Len(found.workspaces) = 0 THEN {[err |-> TRUE, workspace |-> <<>>]}
     ELSE {[err |-> FALSE, workspace |-> <<sorted[1]>>] :
             sorted \in sortByModTime(found.workspaces)}

OpenWorkspaceDB(workspace) == [err |-> ~workspace.Opens]

\* db.Where("key = ?", key).First(&item): the row is found
Found(workspace, key) == workspace.Reads /\ key \in DOMAIN workspace.Items

\* map[composerID]title built from the composer key
composerTitlesOf(workspace) ==
  IF Found(workspace, ComposerKey) /\ workspace.Items[ComposerKey].shape = "object"
  THEN LET all == workspace.Items[ComposerKey].allComposers
           named == {k \in 1..Len(all) : all[k].Name # <<>>}
       IN [id \in {all[k].ComposerID : k \in named} |->
             all[CHOOSE k \in named : /\ all[k].ComposerID = id
                                      /\ \A j \in named : all[j].ComposerID = id => j <= k].Name]
  ELSE <<>>

\* the tabs one key contributes
keyTabs(workspace, key, composerTitles, now, order) ==
  IF ~Found(workspace, key) THEN <<>>
  ELSE LET value == workspace.Items[key]
       IN IF key = ChatDataKey
          THEN IF value.shape = "object" THEN value.tabs ELSE <<>>
          ELSE IF key = PromptsKey
          THEN parseAIServicePromptsWithTitles(value, composerTitles, now, order).tabs
          ELSE IF key = ComposerKey
          THEN parseComposerData(value).tabs
          ELSE IF value.shape = "object" THEN value.tabs ELSE <<>>

RECURSIVE concatKeysFirstMatch(_, _, _, _, _, _)
\* variant of concatKeys that stops at the first key that yields conversations
concatKeysFirstMatch(workspace, keys, k, composerTitles, now, order) ==
  IF k > Len(keys) THEN <<>>
  ELSE IF keyTabs(workspace, keys[k], composerTitles, now, order) # <<>>
       THEN keyTabs(workspace, keys[k], composerTitles, now, order)
       ELSE concatKeysFirstMatch(workspace, keys, k + 1, composerTitles, now, order)

RECURSIVE concatKeys(_, _, _, _, _, _)
concatKeys(workspace, keys, k, composerTitles, now, order) ==
  IF k > Len(keys) THEN <<>>
  ELSE keyTabs(workspace, keys[k], composerTitles, now, order)
         \o concatKeys(workspace, keys, k + 1, composerTitles, now, order)

\* variant of GetChatData that fails when the value of a key is not JSON
GetChatDataStrict(workspace, now) ==
  IF \/ OpenWorkspaceDB(workspace).err
     \/ \E k \in 1..Len(chatKeys) :
          Found(workspace, chatKeys[k]) /\ workspace.Items[chatKeys[k]].shape = "invalid"
  THEN {[err |-> TRUE, Tabs |-> <<>>]}
  ELSE LET composerTitles == composerTitlesOf(workspace)
       IN {[err |-> FALSE,
            Tabs |-> concatKeys(workspace, chatKeys, 1, composerTitles, now, order)] :
             order \in Orders(DOMAIN composerTitles)}

\* the set of results [err, Tabs] a read of the workspace at time now can give
GetChatData(workspace, now) ==
  IF OpenWorkspaceDB(workspace).err THEN {[err |-> TRUE, Tabs |-> <<>>]}
  ELSE LET composerTitles == composerTitlesOf(workspace)
       IN {[err |-> FALSE,
            Tabs |-> concatKeys(workspace, chatKeys, 1, composerTitles, now, order)] :
             order \in Orders(DOMAIN composerTitles)}

\* variant of TimestampGreater that orders oldest first
TimestampLess(a, b) == a.Timestamp < b.Timestamp

TimestampGreater(a, b) == a.Timestamp > b.Timestamp

sortByTimestamp(tabs) ==
  SortSlice(tabs, {<<i, j>> \in Positions(tabs) : TimestampGreater(tabs[i], tabs[j])})

\* the set of results [err, tab] the call can return
GetLatestChat(storage, now) ==
  LET failed == [err |-> TRUE, tab |-> <<>>]
  IN UNION {IF latest.err THEN {failed}
            ELSE UNION {IF chatData.err \/ Len(chatData.Tabs) = 0 THEN {failed}
                        ELSE {[err |-> FALSE, tab |-> <<sorted[1]>>] :
                                sorted \in sortByTimestamp(chatData.Tabs)} :
                          chatData \in GetChatData(latest.workspace[1], now)} :
              latest \in GetLatestWorkspace(storage)}

RECURSIVE scanForChatAbort(_, _, _, _)
\* variant of scanForChat that gives up at a workspace that fails to open
scanForChatAbort(workspaces, k, chatID, now) ==
  IF k > Len(workspaces) THEN {[err |-> TRUE, tab |-> <<>>, workspacePath |-> ""]}
  ELSE UNION {LET hits == IF chatData.err THEN {}
                          ELSE {t \in 1..Len(chatData.Tabs) : chatData.Tabs[t].ID = chatID}
              IN IF chatData.err THEN {[err |-> TRUE, tab |-> <<>>, workspacePath |-> ""]}
                 ELSE IF hits = {} THEN scanForChatAbort(workspaces, k + 1, chatID, now)
                 ELSE {[err |-> FALSE,
                        tab |-> <<chatData.Tabs[CHOOSE t \in hits : \A u \in hits : t <= u]>>,
                        workspacePath |-> WorkspacePath(workspaces[k])]} :
                chatData \in GetChatData(workspaces[k], now)}

RECURSIVE scanForChat(_, _, _, _)
\* the loop of GetChatByID from workspace k on
scanForChat(workspaces, k, chatID, now) ==
  IF k > Len(workspaces) THEN {[err |-> TRUE, tab |-> <<>>, workspacePath |-> ""]}
  ELSE UNION {LET hits == IF chatData.err THEN {}
                          ELSE {t \in 1..Len(chatData.Tabs) : chatData.Tabs[t].ID = chatID}
              IN IF hits = {} THEN scanForChat(workspaces, k + 1, chatID, now)
                 ELSE {[err |-> FALSE,
                        tab |-> <<chatData.Tabs[CHOOSE t \in hits : \A u \in hits : t <= u]>>,
                        workspacePath |-> WorkspacePath(workspaces[k])]} :
                chatData \in GetChatData(workspaces[k], now)}

\* the set of results [err, tab, workspacePath] the call can return
GetChatByID(storage, chatID, now) ==
  LET found == FindWorkspaces(storage)
  IN IF found.err THEN {[err |-> TRUE, tab |-> <<>>, workspacePath |-> ""]}
     ELSE scanForChat(found.workspaces, 1, chatID, now)

ChatTabWithWorkspace(tab, workspace) ==
  [ID |-> tab.ID, Title |-> tab.Title, Messages |-> tab.Messages,
   Timestamp |-> tab.Timestamp, CreatedAt |-> tab.CreatedAt,
   WorkspacePath |-> WorkspacePath(workspace), WorkspaceName |-> workspace.Name]

\* what one workspace adds to allChats, given the result of reading it
workspaceChats(workspace, chatData) ==
  IF chatData.err THEN <<>>
  ELSE [t \in 1..Len(chatData.Tabs) |-> ChatTabWithWorkspace(chatData.Tabs[t], workspace)]

RECURSIVE collectChatsAbort(_, _, _)
\* variant of collectChats whose loop ends at the first workspace that fails to open
collectChatsAbort(workspaces, k, now) ==
  IF k > Len(workspaces) THEN {<<>>}
  ELSE UNION {IF chatData.err THEN {<<>>}
              ELSE {workspaceChats(workspaces[k], chatData) \o rest :
                      rest \in collectChatsAbort(workspaces, k + 1, now)} :
                chatData \in GetChatData(workspaces[k], now)}

RECURSIVE collectChats(_, _, _)
\* the loop of ListAllChats from workspace k on: the possible values of allChats
collectChats(workspaces, k, now) ==
  IF k > Len(workspaces) THEN {<<>>}
  ELSE {workspaceChats(workspaces[k], chatData) \o rest :
          chatData \in GetChatData(workspaces[k], now),
          rest \in collectChats(workspaces, k + 1, now)}

\* the set of results [err, chats] the call can return
ListAllChats(storage, now) ==
  LET found == FindWorkspaces(storage)
  IN IF found.err THEN {[err |-> TRUE, chats |-> <<>>]}
     ELSE UNION {{[err |-> FALSE, chats |-> sorted] :
                    sorted \in sortByTimestamp(allChats)} :
                   allChats \in collectChats(found.workspaces, 1, now)}

(***************************************************************************)
(* models.go: rendering of a chat tab                                      *)
(***************************************************************************)
UntitledChat == <<"U","n","t","i","t","l","e","d"," ","C","h","a","t">>

GetDisplayTitle(ct) ==
  LET users == {k \in 1..Len(ct.Messages) :
                  ct.Messages[k].Role = RoleUser /\ Len(ct.Messages[k].Content) > 0}
      first == ct.Messages[CHOOSE k \in users : \A j \in users : k <= j].Content
  IN IF ct.Title # <<>> THEN ct.Title
     ELSE IF users # {}
          THEN IF Len(first) > 50 THEN SubSeq(first, 1, 47) \o <<".",".",".">> ELSE first
          ELSE UntitledChat

messageMarkdown(msg) ==
  IF msg.Role = RoleUser
  THEN <<"*","*","U","s","e","r","*","*",":"," ">> \o msg.Content \o <<"\n","\n">>
  ELSE IF msg.Role = RoleAssistant
  THEN <<"*","*","A","s","s","i","s","t","a","n","t","*","*",":"," ">> \o msg.Content \o <<"\n","\n">>
  ELSE <<"*","*">> \o msg.Role \o <<"*","*",":"," ">> \o msg.Content \o <<"\n","\n">>

RECURSIVE messagesMarkdown(_, _)
messagesMarkdown(messages, k) ==
  IF k > Len(messages) THEN <<>>
  ELSE messageMarkdown(messages[k]) \o messagesMarkdown(messages, k + 1)

\* CreatedAt of the receiver after the call
ToMarkdownCreatedAt(ct) ==
  IF IsZero(ct.CreatedAt) /\ ct.Timestamp > 0
  THEN TimeUnix(ct.Timestamp \div 1000) ELSE ct.CreatedAt

ToMarkdown(ct) ==
  LET createdAt == ToMarkdownCreatedAt(ct)
  IN <<"#"," ">> \o GetDisplayTitle(ct) \o <<"\n","\n">>
     \o (IF ~IsZero(createdAt)
         THEN <<"*","*","D","a","t","e","*","*",":"," ">> \o FormatDateTime(createdAt) \o <<"\n","\n">>
         ELSE <<>>)
     \o messagesMarkdown(ct.Messages, 1)

technicalTerms ==
  << <<"j","a","v","a","s","c","r","i","p","t">>,
     <<"t","y","p","e","s","c","r","i","p","t">>,
     <<"p","y","t","h","o","n">>,
     <<"j","a","v","a">>,
     <<"g","o">>,
     <<"r","u","s","t">>,
     <<"c","p","p">>,
     <<"c","+","+">>,
     <<"h","t","m","l">>,
     <<"c","s","s">>,
     <<"s","q","l">>,
     <<"b","a","s","h">>,
     <<"s","h","e","l","l">>,
     <<"a","u","t","h","e","n","t","i","c","a","t","i","o","n">>,
     <<"a","u","t","h","o","r","i","z","a","t","i","o","n">>,
     <<"a","p","i">>,
     <<"d","a","t","a","b","a","s","e">>,
     <<"f","r","o","n","t","e","n","d">>,
     <<"b","a","c","k","e","n","d">>,
     <<"m","i","c","r","o","s","e","r","v","i","c","e","s">>,
     <<"d","o","c","k","e","r">>,
     <<"k","u","b","e","r","n","e","t","e","s">>,
     <<"d","e","p","l","o","y","m","e","n","t">>,
     <<"t","e","s","t","i","n","g">>,
     <<"d","e","b","u","g","g","i","n","g">>,
     <<"p","e","r","f","o","r","m","a","n","c","e">>,
     <<"o","p","t","i","m","i","z","a","t","i","o","n">>,
     <<"s","e","c","u","r","i","t","y">>,
     <<"e","n","c","r","y","p","t","i","o","n">>,
     <<"v","a","l","i","d","a","t","i","o","n">>,
     <<"r","e","f","a","c","t","o","r","i","n","g">>,
     <<"r","e","a","c","t">>,
     <<"v","u","e">>,
     <<"a","n","g","u","l","a","r">>,
     <<"n","o","d","e","j","s">>,
     <<"e","x","p","r","e","s","s">>,
     <<"f","a","s","t","a","p","i">>,
     <<"d","j","a","n","g","o">>,
     <<"f","l","a","s","k">>,
     <<"s","p","r","i","n","g">>,
     <<"l","a","r","a","v","e","l">>,
     <<"r","a","i","l","s">>,
     <<"n","e","x","t","j","s">>,
     <<"s","v","e","l","t","e">> >>
\* the terms found in the rendered chat, in the order of technicalTerms
ExtractTechnicalConcepts(ct) ==
  LET fullContent == ToMarkdown(ct)
      IsMentioned(term) == containsIgnoreCase(fullContent, term)
  IN SelectSeq(technicalTerms, IsMentioned)

(***************************************************************************)
(* reader: full-text search                                                *)
(***************************************************************************)
\* whether the loop of SearchChats keeps the chat
searchMatches(chat, query) ==
  \/ containsIgnoreCase(GetDisplayTitle(chat), query)
  \/ containsIgnoreCase(ToMarkdown(chat), query)

\* the loop's copy of the chat when it is appended to matches: ToMarkdown
\* has filled in CreatedAt if the title did not already match
searchCopy(chat, query) ==
  IF containsIgnoreCase(GetDisplayTitle(chat), query) THEN chat
  ELSE [chat EXCEPT !.CreatedAt = ToMarkdownCreatedAt(chat)]

\* the set of results [err, chats] the call can return
SearchChats(storage, query, now) ==
  {IF all.err THEN [err |-> TRUE, chats |-> <<>>]
   ELSE LET Keep(chat) == searchMatches(chat, query)
            kept == SelectSeq(all.chats, Keep)
        IN [err |-> FALSE, chats |-> [k \in 1..Len(kept) |-> searchCopy(kept[k], query)]] :
     all \in ListAllChats(storage, now)}

(***************************************************************************)
(* import-cursor-chat: the name of the memory made from a chat             *)
(***************************************************************************)
IsSpace(c) == c \in {" ", "\n", "\t", "\r"}

\* strings.TrimSpace
TrimSpace(s) ==
  LET solid == {i \in 1..Len(s) : ~IsSpace(s[i])}
  IN IF solid = {} THEN <<>>
     ELSE SubSeq(s, CHOOSE i \in solid : \A j \in solid : i <= j,
                    CHOOSE i \in solid : \A j \in solid : j <= i)

\* strings.HasPrefix
HasPrefix(s, prefix) == Len(s) >= Len(prefix) /\ SubSeq(s, 1, Len(prefix)) = prefix

\* strings.TrimPrefix
TrimPrefix(s, prefix) ==
  IF HasPrefix(s, prefix) THEN SubSeq(s, Len(prefix) + 1, Len(s)) ELSE s

IsWordChar(c) ==
  c \in DOMAIN LowerToUpper \/ c \in DOMAIN UpperToLower \/ c = "_"
    \/ c \in {DigitChars[d] : d \in 1..10}

\* strings.Title: upper-cases the letter that begins each word
stringsTitle(s) ==
  [i \in 1..Len(s) |->
     IF (i = 1 \/ ~IsWordChar(s[i - 1])) /\ s[i] \in DOMAIN LowerToUpper
     THEN LowerToUpper[s[i]] ELSE s[i]]

\* strings.Split(content, ".")[0]
firstSentenceOf(content) ==
  LET dots == {i \in 1..Len(content) : content[i] = "."}
  IN IF dots = {} THEN content
     ELSE SubSeq(content, 1, (CHOOSE i \in dots : \A j \in dots : i <= j) - 1)

cleanChatTitle(title) ==
  TrimPrefix(TrimPrefix(TrimSpace(title), <<"C","h","a","t",":"," ">>),
             <<"D","i","s","c","u","s","s","i","o","n",":"," ">>)

\* variant of nameFromMessages that takes the first user message whatever it is
nameFromMessagesAnyLength(messages) ==
  LET users == {k \in 1..Len(messages) : messages[k].Role = RoleUser}
  IN IF users = {} THEN <<>>
     ELSE stringsTitle(toLower(firstSentenceOf(
            messages[CHOOSE k \in users : \A j \in users : k <= j].Content)))

\* the name the message loop returns, <<>> when it returns none
nameFromMessages(messages) ==
  LET sentence(k) == TrimSpace(firstSentenceOf(TrimSpace(messages[k].Content)))
      usable == {k \in 1..Len(messages) :
                   /\ messages[k].Role = RoleUser
                   /\ Len(TrimSpace(messages[k].Content)) > 0
                   /\ ~HasPrefix(TrimSpace(messages[k].Content), <<"@">>)
                   /\ Len(sentence(k)) > 10}
      firstSentence == sentence(CHOOSE k \in usable : \A j \in usable : k <= j)
  IN IF usable = {} THEN <<>>
     ELSE stringsTitle(toLower(IF Len(firstSentence) > 60
                               THEN SubSeq(firstSentence, 1, 57) \o <<".",".",".">>
                               ELSE firstSentence))

\* variant of generateChatMemoryName that falls back on the display title
generateChatMemoryNameDisplay(chatTab) ==
  LET title == GetDisplayTitle(chatTab)
  IN IF nameFromMessages(chatTab.Messages) # <<>> /\ (title = UntitledChat \/ title = AIServiceChatTitle)
     THEN nameFromMessages(chatTab.Messages)
     ELSE cleanChatTitle(title)

generateChatMemoryName(chatTab) ==
  LET title == GetDisplayTitle(chatTab)
      concepts == ExtractTechnicalConcepts(chatTab)
  IN IF title # UntitledChat /\ title # AIServiceChatTitle /\ Len(title) > 0
     THEN cleanChatTitle(title)
     ELSE IF nameFromMessages(chatTab.Messages) # <<>>
     THEN nameFromMessages(chatTab.Messages)
     ELSE IF Len(concepts) > 0
     THEN IF Len(concepts) > 1
          THEN stringsTitle(concepts[1])
                 \o <<" ","D","e","v","e","l","o","p","m","e","n","t"," ","D","i","s","c","u","s","s","i","o","n">>
          ELSE stringsTitle(concepts[1]) \o <<" ","C","h","a","t">>
     ELSE IF chatTab.Timestamp > 0
     THEN <<"D","e","v","e","l","o","p","m","e","n","t"," ","S","e","s","s","i","o","n"," ">>
            \o FormatDate(TimeUnix(chatTab.Timestamp \div 1000))
     ELSE <<"C","u","r","s","o","r"," ","C","h","a","t"," ","S","e","s","s","i","o","n">>

(***************************************************************************)
(* import-cursor-chat: the labels of the memory made from a chat           *)
(***************************************************************************)
RECURSIVE appendCap(_)
\* capacity of a slice grown from nil by n appends of one element
appendCap(n) ==
  IF n = 0 THEN 0
  ELSE LET before == appendCap(n - 1)
       IN IF n <= before THEN before ELSE IF before = 0 THEN 1 ELSE 2 * before

\* strings.Contains
Contains(s, substr) ==
  \E i \in 0..(Len(s) - Len(substr)) : SubSeq(s, i + 1, i + Len(substr)) = substr

RECURSIVE Join(_, _)
\* strings.Join
Join(elems, sep) ==
  IF Len(elems) = 0 THEN <<>>
  ELSE IF Len(elems) = 1 THEN elems[1]
  ELSE elems[1] \o sep \o Join(Tail(elems), sep)

MaxTechnologies == 3

activityPatterns ==
  << <<"debug", <<"d","e","b","u","g">>, "debugging">>,
     <<"error", <<"e","r","r","o","r">>, "debugging">>,
     <<"implement", <<"i","m","p","l","e","m","e","n","t">>, "implementation">>,
     <<"create", <<"c","r","e","a","t","e">>, "implementation">>,
     <<"build", <<"b","u","i","l","d">>, "implementation">>,
     <<"review", <<"r","e","v","i","e","w">>, "code-review">>,
     <<"refactor", <<"r","e","f","a","c","t","o","r">>, "refactoring">>,
     <<"optimize", <<"o","p","t","i","m","i","z","e">>, "optimization">>,
     <<"test", <<"t","e","s","t">>, "testing">>,
     <<"explain", <<"e","x","p","l","a","i","n">>, "learning">>,
     <<"how", <<"h","o","w">>, "learning">>,
     <<"what", <<"w","h","a","t">>, "learning">>  >>

\* The set of outcomes of generateChatLabels: panic says that the call ends in
\* a run-time panic; the activity is that of whichever matching pattern the
\* map iteration meets first.
generateChatLabels(chatTab) ==
  LET concepts == ExtractTechnicalConcepts(chatTab)
      content == toLower(ToMarkdown(chatTab))
      base == ("type" :> <<"c","h","a","t">>)
                @@ ("source" :> <<"c","u","r","s","o","r","-","a","i","-","p","a","n","e">>)
      dated == IF chatTab.Timestamp > 0
               THEN ("date" :> FormatDate(TimeUnix(chatTab.Timestamp \div 1000))) @@ base
               ELSE base
      primary == IF Len(concepts) > 0 THEN ("language" :> concepts[1]) @@ dated ELSE dated
      technical == IF Len(concepts) > 1
                   THEN ("technologies" :> Join(SubSeq(concepts, 1, MaxTechnologies), <<",">>))
                          @@ primary
                   ELSE primary
      activities == {activityPatterns[k][3] : k \in {j \in 1..Len(activityPatterns) :
                                                      Contains(content, activityPatterns[j][2])}}
  IN IF Len(concepts) > 1 /\ MaxTechnologies > appendCap(Len(concepts))
     THEN {[panic |-> TRUE, labels |-> <<>>]}
     ELSE IF activities = {}
     THEN {[panic |-> FALSE, labels |-> technical]}
     ELSE {[panic |-> FALSE, labels |-> ("activity" :> activity) @@ technical] :
             activity \in activities}

(***************************************************************************)
(* utils: memory ids                                                       *)
(***************************************************************************)
HexChars == <<"0","1","2","3","4","5","6","7","8","9","a","b","c","d","e","f">>

RECURSIVE Hex(_)
\* fmt %x of a natural number
Hex(n) ==
  IF n < Len(HexChars) THEN <<HexChars[n + 1]>>
  ELSE Append(Hex(n \div Len(HexChars)), HexChars[(n % Len(HexChars)) + 1])

RECURSIVE PadZero(_, _)
\* fmt %0<width>x: zeros in front up to the width
PadZero(s, width) == IF Len(s) >= width THEN s ELSE PadZero(<<"0">> \o s, width)

RandomWidth == 6

\* rand.Intn(RandomLimit) draws from 0..RandomLimit-1
RandomLimit == 999999

\* GenerateID at second now when rand.Intn returns random
GenerateID(now, random) ==
  <<"m","e","m","_">> \o Hex(now) \o <<"_">> \o PadZero(Hex(random), RandomWidth)

(***************************************************************************)
(* storage: the file store of memories.  The memories directory maps the   *)
(* id of every <id>.json file to the memory the file holds; the index is   *)
(* the list of entries of index.json.                                      *)
(*   memory       [ID, Name, Content, Labels, CreatedAt, UpdatedAt]        *)
(*   index entry  [ID, Name, Labels, CreatedAt, UpdatedAt]                 *)
(*   request      [Name, Content, Labels] and, for an update, ID           *)
(* Names, label keys and label values are character sequences.  A label    *)
(* map is a function; in a request, Labels is <<>> for the nil map and     *)
(* <<map>> otherwise.  Metadata is carried along unread and left out.      *)
(***************************************************************************)
LabelType == <<"t","y","p","e">>
LabelManual == <<"m","a","n","u","a","l">>
MemoryNamePrefix == <<"M","e","m","o","r","y"," ">>

MaxNameLength == 200
MaxLabelLength == 63

IndexEntry(memory, createdAt) ==
  [ID |-> memory.ID, Name |-> memory.Name, Labels |-> memory.Labels,
   CreatedAt |-> createdAt, UpdatedAt |-> memory.UpdatedAt]

\* memory.Labels[key]: the empty string for a key the map lacks
labelOf(labels, key) == IF key \in DOMAIN labels THEN labels[key] ELSE <<>>

\* TRUE when validateMemory returns no error
validateMemory(memory) ==
  /\ memory.Name # <<>>
  /\ Len(memory.Name) <= MaxNameLength
  /\ \A k \in DOMAIN memory.Labels :
       Len(k) <= MaxLabelLength /\ Len(memory.Labels[k]) <= MaxLabelLength

\* os.WriteFile(<ID>.json): creates the file or replaces its content
writeMemory(dir, memory) == (memory.ID :> memory) @@ dir

\* position of the first index entry with the id, 0 when there is none
firstEntry(index, id) ==
  IF \E i \in 1..Len(index) : index[i].ID = id
  THEN CHOOSE i \in 1..Len(index) :
         index[i].ID = id /\ \A j \in 1..(i - 1) : index[j].ID # id
  ELSE 0

updateIndex(index, memory, operation) ==
  LET i == firstEntry(index, memory.ID)
  IN CASE operation = "create" -> Append(index, IndexEntry(memory, memory.CreatedAt))
       [] operation = "update" ->
            IF i = 0 THEN index
            ELSE [index EXCEPT ![i] = IndexEntry(memory, index[i].CreatedAt)]
       [] operation = "delete" ->
            IF i = 0 THEN index
            ELSE SubSeq(index, 1, i - 1) \o SubSeq(index, i + 1, Len(index))
       [] OTHER -> index

\* every operation returns [err, memory, memoriesDir, indexFile]: memory is
\* <<>> for the nil pointer, the last two fields are the files afterwards
Create(dir, index, req, now, random) ==
  LET name == IF req.Name = <<>> THEN MemoryNamePrefix \o FormatDate(now) ELSE req.Name
      given == IF req.Labels = <<>> THEN <<>> ELSE req.Labels[1]
      labels == IF labelOf(given, LabelType) = <<>>
                THEN (LabelType :> LabelManual) @@ given ELSE given
      memory == [ID |-> GenerateID(now, random), Name |-> name, Content |-> req.Content,
                 Labels |-> labels, CreatedAt |-> now, UpdatedAt |-> now]
  IN IF ~validateMemory(memory)
     THEN [err |-> TRUE, memory |-> <<>>, memoriesDir |-> dir, indexFile |-> index]
     ELSE [err |-> FALSE, memory |-> <<memory>>,
           memoriesDir |-> writeMemory(dir, memory),
           indexFile |-> updateIndex(index, memory, "create")]

Get(dir, id) ==
  IF id \notin DOMAIN dir
  THEN [err |-> FALSE, memory |-> <<>>]
  ELSE [err |-> FALSE, memory |-> <<dir[id]>>]

Update(dir, index, req, now) ==
  LET got == Get(dir, req.ID)
      existing == got.memory[1]
      updated == [existing EXCEPT
                    !.Name = IF req.Name # <<>> THEN req.Name ELSE @,
                    !.Content = IF req.Content # "" THEN req.Content ELSE @,
                    !.Labels = IF req.Labels # <<>> THEN req.Labels[1] ELSE @,
                    !.UpdatedAt = now]
  IN IF got.err \/ got.memory = <<>>
     THEN [err |-> TRUE, memory |-> <<>>, memoriesDir |-> dir, indexFile |-> index]
     ELSE IF ~validateMemory(updated)
     THEN [err |-> TRUE, memory |-> <<>>, memoriesDir |-> dir, indexFile |-> index]
     ELSE [err |-> FALSE, memory |-> <<updated>>,
           memoriesDir |-> writeMemory(dir, updated),
           indexFile |-> updateIndex(index, updated, "update")]

Delete(dir, index, id) ==
  IF id \notin DOMAIN dir
  THEN [err |-> TRUE, memory |-> <<>>, memoriesDir |-> dir, indexFile |-> index]
  ELSE [err |-> FALSE, memory |-> <<>>,
        memoriesDir |-> [other \in DOMAIN dir \ {id} |-> dir[other]],
        indexFile |-> updateIndex(index, [ID |-> id], "delete")]

\* byte order of the characters of an id
IDChars == <<"0","1","2","3","4","5","6","7","8","9","_","a","b","c","d","e","f","m">>

byteRank(c) == CHOOSE i \in 1..Len(IDChars) : IDChars[i] = c

RECURSIVE nameBefore(_, _)
\* a < b as file names
nameBefore(a, b) ==
  IF b = <<>> THEN FALSE
  ELSE IF a = <<>> THEN TRUE
  ELSE IF Head(a) # Head(b) THEN byteRank(Head(a)) < byteRank(Head(b))
  ELSE nameBefore(Tail(a), Tail(b))

\* filepath.Glob returns the file names in ascending order
List(dir) ==
  LET ids == CHOOSE s \in [1..Cardinality(DOMAIN dir) -> DOMAIN dir] :
               \A i, j \in 1..Cardinality(DOMAIN dir) : i < j => nameBefore(s[i], s[j])
  IN [err |-> FALSE, memories |-> [i \in 1..Len(ids) |-> dir[ids[i]]]]

(***************************************************************************)
(* Sample texts, stored values and stores                                  *)
(***************************************************************************)
Filler(n) == [i \in 1..n |-> "z"]

TextPlain == <<"f","i","x"," ","t","h","e"," ","b","u","g">>
TextAssistant == <<"L","e","t"," ","m","e"," ","s","e","e">>
TextUser == <<"h","o","w"," ","d","o"," ","I"," ","r","u","n"," ","i","t","?">>
TextBoth == <<"C","a","n"," ","y","o","u"," ","t","r","y","?"," ","H","e","r","e","'","s"," ","c","o","d","e">>
TextHello == <<"h","e","l","l","o">>
TextWhy == <<"w","h","y","?">>
\* a user marker followed by filler, longer than either length threshold allows a user
TextLongUser == <<"P","l","e","a","s","e"," ">> \o Filler(ContentLengthThreshold)
\* marker-free texts around the two length thresholds
TextOverPrompt == Filler(PromptLengthThreshold + 1)
TextOverContent == Filler(ContentLengthThreshold + 1)

\* texts that mention one, two and three technical terms
TextGo == <<"u","s","e"," ","g","o">>
TextGoSql == <<"s","q","l"," ","g","o"," ","s","q","l">>
TextThree == <<"g","o"," ","s","q","l"," ","c","s","s">>
\* a first sentence of more than 60 characters, followed by a second one
TextSentence == Filler(61) \o <<"."," ","o","k">>

TitleAlpha == <<"A","l","p","h","a">>
TitlePrefixed == <<"C","h","a","t",":"," ">> \o TitleAlpha
TitleMine == <<"M","y"," ","T","i","t","l","e">>
TitleOther == <<"O","t","h","e","r"," ","T","i","t","l","e">>
ModeAgent == <<"a","g","e","n","t">>

StoredMessage(id, role, content, timestamp) == Message(id, role, content, timestamp, ZeroTime)

Prompt(text, timestamp, role, createdAt) ==
  [Text |-> text, Timestamp |-> timestamp, Role |-> role, CreatedAt |-> createdAt]

Composer(type, id, name, createdAt, mode, messages) ==
  [Type |-> type, ComposerID |-> id, Name |-> name, CreatedAt |-> createdAt,
   UnifiedMode |-> mode, Messages |-> messages]

Generation(unixMs, uuid, type, text, conversationID, role) ==
  [UnixMs |-> unixMs, GenerationUUID |-> uuid, Type |-> type, TextDescription |-> text,
   ConversationID |-> conversationID, Role |-> role]

InvalidValue == [shape |-> "invalid"]

TabAlpha ==
  ChatTab("a", TitleAlpha, <<StoredMessage("m1", RoleUser, TextHello, 1000)>>, 1000, ZeroTime)

\* a tab stored without a title
TabBeta ==
  ChatTab("b", <<>>, <<StoredMessage("m1", RoleUser, TextWhy, 2000),
                       StoredMessage("m2", RoleAssistant, TextAssistant, 3000)>>, 3000, ZeroTime)

\* a tab stored without messages
TabEmpty == ChatTab("e", TitleOther, <<>>, 500, ZeroTime)

ComposerNamed == Composer("head", "c", TitleMine, 6000, ModeAgent, <<>>)

\* a head session whose id is that of TabAlpha, with five messages
ComposerRich ==
  Composer("head", "a", <<>>, 4000, ModeAgent,
           [k \in 1..5 |-> StoredMessage("r" \o ToString(k),
                                         IF k % 2 = 1 THEN RoleUser ELSE RoleAssistant,
                                         TextHello, 4000 + k)])

ComposerSide == Composer("side", "d", TitleOther, 5000, <<>>, <<>>)

ShortPrompts == <<Prompt(TextWhy, 0, <<>>, ZeroTime), Prompt(TextPlain, 7000, <<>>, ZeroTime)>>

\* a directory entry that is a workspace whose store opens and reads
Workspace(items, modTime) ==
  [IsDir |-> TRUE, HasStore |-> TRUE, Opens |-> TRUE, Reads |-> TRUE,
   Items |-> items, ModTime |-> modTime]

StoreChat ==
  Workspace((ChatDataKey :> [shape |-> "object", tabs |-> <<TabAlpha, TabBeta>>]), 1)

\* the value of the prompt-list key is not JSON
StoreDup ==
  Workspace((ChatDataKey :> [shape |-> "object", tabs |-> <<TabAlpha>>])
              @@ (PromptsKey :> InvalidValue)
              @@ (ComposerKey :> [shape |-> "object", allComposers |-> <<ComposerRich>>]), 2)

StorePrompts ==
  Workspace((PromptsKey :> [shape |-> "array", items |-> ShortPrompts])
              @@ (ComposerKey :> [shape |-> "object", allComposers |-> <<ComposerNamed>>]), 3)

StoreTwoTitles ==
  Workspace((ChatDataKey :> [shape |-> "object", tabs |-> <<TabEmpty>>])
              @@ (PromptsKey :> [shape |-> "object", item |-> ShortPrompts[1]])
              @@ (ComposerKey :> [shape |-> "object",
                                  allComposers |-> <<ComposerNamed, ComposerSide>>]), 3)

ChatGenerations ==
  <<Generation(8000, "g1", "composer", TextWhy, "k", <<>>),
    Generation(9000, "g2", "composer", TextAssistant, "k", <<>>)>>

StoreMalformed ==
  Workspace((ChatDataKey :> InvalidValue)
              @@ (PromptsKey :> [shape |-> "array", items |-> <<>>])
              @@ (GenerationsKey :> [shape |-> "array", items |-> ChatGenerations])
              @@ (ComposerKey :> InvalidValue), 4)

\* the store file exists but cannot be opened
StoreLocked == [StoreChat EXCEPT !.Opens = FALSE, !.ModTime = 4]

\* the store opens but its rows cannot be read
StoreCorrupt == [StoreChat EXCEPT !.Reads = FALSE, !.ModTime = 2]

\* a directory entry that is no workspace
PlainFile ==
  [IsDir |-> FALSE, HasStore |-> FALSE, Opens |-> FALSE, Reads |-> FALSE,
   Items |-> <<>>, ModTime |-> 0]

StoreSamples ==
  {StoreChat, StoreDup, StorePrompts, StoreTwoTitles, StoreMalformed, StoreLocked,
   StoreCorrupt, PlainFile}

\* the stores a reader is pointed at by the path of their file
FileSamples == {StoreChat, StoreDup}

NamedEntry(i, store) ==
  [Name |-> "ws" \o ToString(i), IsDir |-> store.IsDir, HasStore |-> store.HasStore,
   Opens |-> store.Opens, Reads |-> store.Reads, Items |-> store.Items,
   ModTime |-> store.ModTime]

ChatIDs == {"a", "b", "c", "none", "ai-service-1"}

\* the last query is the whole transcript of TabAlpha in lower case
Queries == {<<"a","l","p","h","a">>, toLower(ToMarkdown(TabAlpha))}

(***************************************************************************)
(* Bounds                                                                  *)
(***************************************************************************)
NumEntries == 3
MaxClock == 2
MaxPrompts == 2
MaxGenerations == 2
NumRandom == 2
MaxMemories == 2

(***************************************************************************)
(* The reader as a state machine: the storage path, the wall clock in      *)
(* seconds, and the outcome of the one call made on the reader.  The path  *)
(* names a directory whose entries are pairwise different samples, a       *)
(* directory without any workspace, a directory that cannot be read, or    *)
(* the file of one store.  memoriesDir and indexFile are the files of the  *)
(* memory store, which the reader and the parsers leave alone.             *)
(***************************************************************************)
VARIABLES storage, clock, result, memoriesDir, indexFile

vars == <<storage, clock, result, memoriesDir, indexFile>>

NoResult == [op |-> "none"]

Init ==
  /\ storage \in
       {[Readable |-> TRUE, Entries |-> [i \in 1..NumEntries |-> NamedEntry(i, pick[i])],
         File |-> <<>>] :
          pick \in {p \in [1..NumEntries -> StoreSamples] :
                      \A i, j \in 1..NumEntries : p[i] = p[j] => i = j}}
       \cup {[Readable |-> TRUE, Entries |-> <<NamedEntry(1, PlainFile)>>, File |-> <<>>],
             [Readable |-> TRUE, Entries |-> <<>>, File |-> <<>>],
             [Readable |-> FALSE, Entries |-> <<>>, File |-> <<>>]}
       \cup {[Readable |-> FALSE, Entries |-> <<>>, File |-> <<NamedEntry(0, store)>>] :
               store \in FileSamples}
  /\ clock = 1
  /\ result = NoResult
  /\ memoriesDir = <<>>
  /\ indexFile = <<>>

\* time passes before the call
Tick ==
  /\ result = NoResult
  /\ clock < MaxClock
  /\ clock' = clock + 1
  /\ UNCHANGED <<storage, result, memoriesDir, indexFile>>

CallFindWorkspaces ==
  /\ result = NoResult
  /\ LET r == FindWorkspaces(storage)
     IN result' = [op |-> "FindWorkspaces", err |-> r.err,
                   workspaces |-> [k \in 1..Len(r.workspaces) |->
                                     WorkspacePath(r.workspaces[k])]]
  /\ UNCHANGED <<storage, clock, memoriesDir, indexFile>>

CallGetLatestWorkspace ==
  /\ result = NoResult
  /\ \E r \in GetLatestWorkspace(storage) :
       result' = [op |-> "GetLatestWorkspace", err |-> r.err,
                  workspace |-> [k \in 1..Len(r.workspace) |->
                                   WorkspacePath(r.workspace[k])]]
  /\ UNCHANGED <<storage, clock, memoriesDir, indexFile>>

CallGetChatData ==
  /\ result = NoResult
  /\ \E k \in 1..Len(storage.Entries) :
       /\ storage.Entries[k].HasStore
       /\ \E r \in GetChatData(storage.Entries[k], clock) :
            result' = [op |-> "GetChatData", workspace |-> k, err |-> r.err, Tabs |-> r.Tabs]
  /\ UNCHANGED <<storage, clock, memoriesDir, indexFile>>

CallGetLatestChat ==
  /\ result = NoResult
  /\ \E r \in GetLatestChat(storage, clock) :
       result' = [op |-> "GetLatestChat", err |-> r.err, tab |-> r.tab]
  /\ UNCHANGED <<storage, clock, memoriesDir, indexFile>>

CallGetChatByID ==
  /\ result = NoResult
  /\ \E chatID \in ChatIDs :
       \E r \in GetChatByID(storage, chatID, clock) :
         result' = [op |-> "GetChatByID", chatID |-> chatID, err |-> r.err, tab |-> r.tab,
                    workspacePath |-> r.workspacePath]
  /\ UNCHANGED <<storage, clock, memoriesDir, indexFile>>

CallListAllChats ==
  /\ result = NoResult
  /\ \E r \in ListAllChats(storage, clock) :
       result' = [op |-> "ListAllChats", err |-> r.err, chats |-> r.chats]
  /\ UNCHANGED <<storage, clock, memoriesDir, indexFile>>

\* import-cursor-chat --tab-id with an id that list-cursor-chats printed, run
\* at the time of the listing or later
CallGetListedChat ==
  /\ result.op = "ListAllChats"
  /\ \E k \in 1..Len(result.chats), later \in clock..MaxClock :
       \E r \in GetChatByID(storage, result.chats[k].ID, later) :
         /\ clock' = later
         /\ result' = [op |-> "GetChatByID after ListAllChats", listed |-> result.chats[k],
                       err |-> r.err, tab |-> r.tab, workspacePath |-> r.workspacePath]
  /\ UNCHANGED <<storage, memoriesDir, indexFile>>

CallSearchChats ==
  /\ result = NoResult
  /\ \E query \in Queries :
       \E r \in SearchChats(storage, query, clock) :
         result' = [op |-> "SearchChats", query |-> query, err |-> r.err, chats |-> r.chats]
  /\ UNCHANGED <<storage, clock, memoriesDir, indexFile>>

Next ==
  \/ Tick
  \/ CallFindWorkspaces
  \/ CallGetLatestWorkspace
  \/ CallGetChatData
  \/ CallGetLatestChat
  \/ CallGetChatByID
  \/ CallListAllChats
  \/ CallSearchChats

Spec == Init /\ [][Next]_vars

\* a listing followed by a lookup of one of the listed ids
NextListThenGet ==
  \/ Tick
  \/ CallListAllChats
  \/ CallGetListedChat

ListThenGetSpec == Init /\ [][NextListThenGet]_vars

(***************************************************************************)
(* The parsers and the naming step applied to drawn inputs: result records *)
(* the input together with what the function returned.                     *)
(***************************************************************************)
\* all sequences over S of length at most n
SeqsUpTo(S, n) == UNION {[1..m -> S] : m \in 0..n}

PromptTexts ==
  {TextPlain, TextAssistant, TextUser, TextBoth, TextLongUser, TextOverPrompt, <<>>}

PromptSamples ==
  {Prompt(text, 0, <<>>, ZeroTime) : text \in PromptTexts}
    \cup {Prompt(TextUser, 0, RoleAssistant, ZeroTime),
          Prompt(TextAssistant, 0, RoleUser, ZeroTime),
          Prompt(TextPlain, 0, RoleSystem, ZeroTime),
          Prompt(TextPlain, 7000, <<>>, ZeroTime),
          Prompt(TextWhy, 0, <<>>, 3)}

PromptValues ==
  {[shape |-> "array", items |-> items] : items \in SeqsUpTo(PromptSamples, MaxPrompts)}
    \cup {[shape |-> "object", item |-> prompt] : prompt \in PromptSamples}
    \cup {InvalidValue}

TitleMaps ==
  {<<>>, ("c" :> TitleMine), ("c" :> TitleMine) @@ ("d" :> TitleOther)}

GenerationSamples ==
  {Generation(1000, "g1", "composer", TextWhy, "k", <<>>),
   Generation(2000, "g2", "composer", TextAssistant, "k", <<>>),
   Generation(1000, "g3", "composer", TextWhy, "", RoleAssistant),
   Generation(3000, "g4", "composer", <<>>, "k", <<>>),
   Generation(1000, "g5", "apply", TextPlain, "k", <<>>),
   Generation(2000, "g6", "composer", TextLongUser, "j", <<>>),
   Generation(2000, "g7", "composer", TextOverContent, "j", RoleUser),
   Generation(3000, "g8", "composer", TextBoth, "", <<>>)}

GenerationValues ==
  {[shape |-> "array", items |-> items] :
     items \in {s \in SeqsUpTo(GenerationSamples, MaxGenerations) :
                  \A i, j \in 1..Len(s) : s[i] = s[j] => i = j}}
    \cup {InvalidValue}

ComposerValues ==
  {[shape |-> "object", allComposers |-> all] :
     all \in SeqsUpTo({ComposerNamed, ComposerRich, ComposerSide,
                       Composer("head", "e", <<>>, 0, <<>>, <<>>)}, 2)}
    \cup {InvalidValue}

\* chat tabs handed to the naming step
TabSamples ==
  {ChatTab("t", title, messages, timestamp, createdAt) :
     title \in {<<>>, TitleAlpha, AIServiceChatTitle, TitlePrefixed},
     messages \in {<<>>, TabAlpha.Messages, TabBeta.Messages} \cup
                  {<<StoredMessage("m1", RoleUser, text, 1000)>> :
                     text \in {TextPlain, TextGo, TextGoSql, TextThree, TextSentence}},
     timestamp \in {0, 1000, 86400000},
     createdAt \in {ZeroTime, 5}}

InitParsers ==
  /\ storage = [Readable |-> TRUE, Entries |-> <<>>, File |-> <<>>]
  /\ clock = 1
  /\ result = NoResult
  /\ memoriesDir = <<>>
  /\ indexFile = <<>>

ParsePrompts ==
  /\ result = NoResult
  /\ \E value \in PromptValues, composerTitles \in TitleMaps :
       \E order \in Orders(DOMAIN composerTitles) :
         LET r == parseAIServicePromptsWithTitles(value, composerTitles, clock, order)
         IN result' = [op |-> "parseAIServicePromptsWithTitles", value |-> value,
                       composerTitles |-> composerTitles, err |-> r.err, tabs |-> r.tabs]
  /\ UNCHANGED <<storage, clock, memoriesDir, indexFile>>

ParsePromptsEarlier ==
  /\ result = NoResult
  /\ \E value \in PromptValues, composerTitles \in TitleMaps :
       \E order \in Orders(DOMAIN composerTitles) :
         LET r == parseAIServicePromptsWithTitlesEarlier(value, composerTitles, clock, order)
         IN result' = [op |-> "parser.go: parseAIServicePromptsWithTitles", value |-> value,
                       composerTitles |-> composerTitles, err |-> r.err, panic |-> r.panic,
                       tabs |-> r.tabs]
  /\ UNCHANGED <<storage, clock, memoriesDir, indexFile>>

ParseGenerations ==
  /\ result = NoResult
  /\ \E value \in GenerationValues, composerTitles \in TitleMaps :
       \E r \in parseAIServiceGenerations(value, composerTitles) :
         result' = [op |-> "parseAIServiceGenerations", value |-> value,
                    composerTitles |-> composerTitles, err |-> r.err, tabs |-> r.tabs]
  /\ UNCHANGED <<storage, clock, memoriesDir, indexFile>>

ParseComposerData ==
  /\ result = NoResult
  /\ \E value \in ComposerValues :
       LET r == parseComposerData(value)
       IN result' = [op |-> "parseComposerData", value |-> value, err |-> r.err,
                     tabs |-> r.tabs]
  /\ UNCHANGED <<storage, clock, memoriesDir, indexFile>>

NameChat ==
  /\ result = NoResult
  /\ \E chatTab \in TabSamples :
       \E labelled \in generateChatLabels(chatTab) :
         result' = [op |-> "generateChatMemoryName", chatTab |-> chatTab,
                    title |-> GetDisplayTitle(chatTab),
                    name |-> generateChatMemoryName(chatTab),
                    panic |-> labelled.panic, labels |-> labelled.labels]
  /\ UNCHANGED <<storage, clock, memoriesDir, indexFile>>

NextParsers ==
  \/ ParsePrompts
  \/ ParseGenerations
  \/ ParseComposerData
  \/ NameChat

ParserSpec == InitParsers /\ [][NextParsers]_vars

\* the two copies of the prompt-list parser side by side
NextPromptParsers ==
  \/ ParsePrompts
  \/ ParsePromptsEarlier

PromptParserSpec == InitParsers /\ [][NextPromptParsers]_vars

\* marker-free texts at and next to the two length thresholds
LengthTexts ==
  {Filler(PromptLengthThreshold), Filler(PromptLengthThreshold + 1),
   Filler(ContentLengthThreshold), Filler(ContentLengthThreshold + 1)}

\* a prompt list of one prompt whose role rests on its length
ParseOnePrompt ==
  /\ result = NoResult
  /\ \E text \in LengthTexts, composerTitles \in TitleMaps :
       \E order \in Orders(DOMAIN composerTitles) :
         LET value == [shape |-> "array", items |-> <<Prompt(text, 0, <<>>, ZeroTime)>>]
             r == parseAIServicePromptsWithTitles(value, composerTitles, clock, order)
         IN result' = [op |-> "parseAIServicePromptsWithTitles", value |-> value,
                       composerTitles |-> composerTitles, err |-> r.err, tabs |-> r.tabs]
  /\ UNCHANGED <<storage, clock, memoriesDir, indexFile>>

\* a generation log of one record whose role rests on its length
ParseOneGeneration ==
  /\ result = NoResult
  /\ \E text \in LengthTexts, composerTitles \in TitleMaps :
       LET value == [shape |-> "array",
                     items |-> <<Generation(4000, "g9", "composer", text, "j", <<>>)>>]
       IN \E r \in parseAIServiceGenerations(value, composerTitles) :
            result' = [op |-> "parseAIServiceGenerations", value |-> value,
                       composerTitles |-> composerTitles, err |-> r.err, tabs |-> r.tabs]
  /\ UNCHANGED <<storage, clock, memoriesDir, indexFile>>

NextLengthRule ==
  \/ ParsePrompts
  \/ ParseGenerations
  \/ ParseOnePrompt
  \/ ParseOneGeneration

LengthRuleSpec == InitParsers /\ [][NextLengthRule]_vars

(***************************************************************************)
(* The file store as a state machine: the memory files, the index, the     *)
(* wall clock and the outcome of the last call.  NewFileStorage leaves an  *)
(* empty memories directory and an index without entries.                  *)
(***************************************************************************)
NameNote == <<"n","o","t","e">>
NameNew == <<"n","e","w">>
LabelsChat == (LabelType :> <<"c","h","a","t">>)
LabelsLong == (LabelType :> Filler(MaxLabelLength + 1))
NoLabels == <<>>

CreateRequests ==
  {[Name |-> NameNote, Content |-> "c1", Labels |-> <<LabelsChat>>],
   [Name |-> <<>>, Content |-> "c1", Labels |-> <<>>],
   [Name |-> Filler(MaxNameLength + 1), Content |-> "c1", Labels |-> <<>>]}

\* what rand.Intn returns
Randoms == 0..((IF NumRandom < RandomLimit THEN NumRandom ELSE RandomLimit) - 1)

MemoryIDs ==
  {GenerateID(now, random) : now \in 1..MaxClock, random \in Randoms}
    \cup {<<"n","o","n","e">>}

UpdateRequests ==
  UNION {{[ID |-> id, Name |-> NameNew, Content |-> "", Labels |-> <<>>],
          [ID |-> id, Name |-> <<>>, Content |-> "c2", Labels |-> <<NoLabels>>],
          [ID |-> id, Name |-> <<>>, Content |-> "", Labels |-> <<LabelsLong>>]} :
           id \in MemoryIDs}

InitStorage ==
  /\ storage = [Readable |-> TRUE, Entries |-> <<>>, File |-> <<>>]
  /\ clock = 1
  /\ result = NoResult
  /\ memoriesDir = <<>>
  /\ indexFile = <<>>

\* time passes between two calls
TimePasses ==
  /\ clock < MaxClock
  /\ clock' = clock + 1
  /\ UNCHANGED <<storage, result, memoriesDir, indexFile>>

CallCreate ==
  /\ Len(indexFile) < MaxMemories
  /\ \E req \in CreateRequests, random \in Randoms :
       LET r == Create(memoriesDir, indexFile, req, clock, random)
       IN /\ result' = [op |-> "Create", req |-> req, err |-> r.err, memory |-> r.memory]
          /\ memoriesDir' = r.memoriesDir
          /\ indexFile' = r.indexFile
  /\ UNCHANGED <<storage, clock>>

CallGet ==
  /\ \E id \in MemoryIDs :
       LET r == Get(memoriesDir, id)
       IN result' = [op |-> "Get", id |-> id, err |-> r.err, memory |-> r.memory]
  /\ UNCHANGED <<storage, clock, memoriesDir, indexFile>>

CallUpdate ==
  /\ \E req \in UpdateRequests :
       LET r == Update(memoriesDir, indexFile, req, clock)
       IN /\ result' = [op |-> "Update", req |-> req, err |-> r.err, memory |-> r.memory]
          /\ memoriesDir' = r.memoriesDir
          /\ indexFile' = r.indexFile
  /\ UNCHANGED <<storage, clock>>

CallDelete ==
  /\ \E id \in MemoryIDs :
       LET r == Delete(memoriesDir, indexFile, id)
       IN /\ result' = [op |-> "Delete", id |-> id, err |-> r.err]
          /\ memoriesDir' = r.memoriesDir
          /\ indexFile' = r.indexFile
  /\ UNCHANGED <<storage, clock>>

CallList ==
  /\ LET r == List(memoriesDir)
     IN result' = [op |-> "List", err |-> r.err, memories |-> r.memories]
  /\ UNCHANGED <<storage, clock, memoriesDir, indexFile>>

NextStorage ==
  \/ TimePasses
  \/ CallCreate
  \/ CallGet
  \/ CallUpdate
  \/ CallDelete
  \/ CallList

StorageSpec == InitStorage /\ [][NextStorage]_vars

(***************************************************************************)
(* Properties of the reader (Spec)                                         *)
(***************************************************************************)
Count(s, x) == Cardinality({i \in 1..Len(s) : s[i] = x})

\* the two sequences hold the same elements the same number of times
SameBag(s, t) ==
  /\ Len(s) = Len(t)
  /\ \A i \in 1..Len(s) : Count(s, s[i]) = Count(t, s[i])

Healthy(entry) == entry.IsDir /\ entry.HasStore /\ entry.Opens /\ entry.Reads

Failing(entry) == entry.IsDir /\ entry.HasStore /\ (~entry.Opens \/ ~entry.Reads)

TabOf(chat) == ChatTab(chat.ID, chat.Title, chat.Messages, chat.Timestamp, chat.CreatedAt)

\* the part of a listing that carries the path of the entry, as chat tabs
ListedFrom(chats, entry) ==
  LET FromEntry(chat) == chat.WorkspacePath = WorkspacePath(entry)
      mine == SelectSeq(chats, FromEntry)
  IN [i \in 1..Len(mine) |-> TabOf(mine[i])]

\* C1: when the storage directory can be read, ListAllChats returns no error
\* and its list holds, for every workspace that opens and reads, exactly the
\* conversations a read of that workspace gives, and nothing for a workspace
\* that fails to open or to read; every listed conversation belongs to a
\* workspace of the directory.
ListAllChatsSkipsFailingWorkspaces ==
  (result.op = "ListAllChats" /\ storage.Readable) =>
    /\ ~result.err
    /\ \A k \in 1..Len(storage.Entries) :
         LET entry == storage.Entries[k]
         IN IF Healthy(entry)
            THEN \E chatData \in GetChatData(entry, clock) :
                   SameBag(ListedFrom(result.chats, entry), chatData.Tabs)
            ELSE ListedFrom(result.chats, entry) = <<>>
    /\ \A i \in 1..Len(result.chats) :
         \E k \in 1..Len(storage.Entries) :
           result.chats[i].WorkspacePath = WorkspacePath(storage.Entries[k])

\* a listing that holds the conversations of a healthy workspace read after
\* a workspace that failed
ListAllChatsAfterFailure ==
  /\ result.op = "ListAllChats"
  /\ ~result.err
  /\ \E j, k \in 1..Len(storage.Entries) :
       /\ j < k
       /\ Failing(storage.Entries[j])
       /\ Healthy(storage.Entries[k])
       /\ ListedFrom(result.chats, storage.Entries[k]) # <<>>

DistinctTimestamps(chats) ==
  \A i, j \in 1..Len(chats) : chats[i].Timestamp = chats[j].Timestamp => i = j

\* C2: when the listed conversations have pairwise distinct timestamps, each
\* element of the list ListAllChats returns has a greater timestamp than the
\* element after it.
ListAllChatsStrictlyDescending ==
  (result.op = "ListAllChats" /\ ~result.err /\ DistinctTimestamps(result.chats)) =>
    \A i \in 1..(Len(result.chats) - 1) :
      result.chats[i].Timestamp > result.chats[i + 1].Timestamp

\* a listing of at least three conversations with distinct timestamps whose
\* newest one was not read from the first workspace
ListAllChatsReordered ==
  /\ result.op = "ListAllChats"
  /\ ~result.err
  /\ DistinctTimestamps(result.chats)
  /\ Len(result.chats) >= 3
  /\ result.chats[1].WorkspaceName # storage.Entries[1].Name
  /\ ListedFrom(result.chats, storage.Entries[1]) # <<>>

\* the workspaces, in the order of FindWorkspaces, a read of which gives a
\* conversation with the id
HoldersOf(chatID) ==
  LET workspaces == FindWorkspaces(storage).workspaces
  IN {k \in 1..Len(workspaces) :
        \E chatData \in GetChatData(workspaces[k], clock) :
          /\ ~chatData.err
          /\ \E t \in 1..Len(chatData.Tabs) : chatData.Tabs[t].ID = chatID}

\* C3: GetChatByID returns an error exactly when no workspace that opens
\* holds the id; otherwise it returns a conversation with that id, read from
\* the first workspace in FindWorkspaces order that holds it, and that
\* workspace's path.
GetChatByIDReturnsFirstMatch ==
  result.op = "GetChatByID" =>
    LET workspaces == FindWorkspaces(storage).workspaces
        holders == HoldersOf(result.chatID)
    IN IF holders = {} THEN result.err
       ELSE /\ ~result.err
            /\ result.tab[1].ID = result.chatID
            /\ \E k \in holders :
                 /\ \A j \in holders : k <= j
                 /\ result.workspacePath = WorkspacePath(workspaces[k])
                 /\ \E chatData \in GetChatData(workspaces[k], clock) :
                      \E t \in 1..Len(chatData.Tabs) : chatData.Tabs[t] = result.tab[1]

\* a lookup over three workspaces that succeeds in the third after a
\* workspace that failed to open
GetChatByIDFoundInThird ==
  /\ result.op = "GetChatByID"
  /\ ~result.err
  /\ Len(FindWorkspaces(storage).workspaces) >= 3
  /\ result.workspacePath = WorkspacePath(FindWorkspaces(storage).workspaces[3])
  /\ \E k \in 1..2 : ~FindWorkspaces(storage).workspaces[k].Opens

\* the conversations the parsers produce for the workspace of a GetChatData
\* call, key after key
ParsedFor(workspace, order) ==
  concatKeys(workspace, chatKeys, 1, composerTitlesOf(workspace), clock, order)

\* C4: when the parsers of a workspace produce several conversations with one
\* id, the result of reading the workspace holds exactly one conversation
\* with that id: the first of those with the most messages.
DuplicateIdsCollapseToRichest ==
  (result.op = "GetChatData" /\ ~result.err) =>
    LET workspace == storage.Entries[result.workspace]
    IN \E order \in Orders(DOMAIN composerTitlesOf(workspace)) :
         LET parsed == ParsedFor(workspace, order)
         IN \A i \in 1..Len(parsed) :
              LET same == {j \in 1..Len(parsed) : parsed[j].ID = parsed[i].ID}
                  richest == CHOOSE j \in same :
                               \A m \in same :
                                 \/ Len(parsed[m].Messages) < Len(parsed[j].Messages)
                                 \/ Len(parsed[m].Messages) = Len(parsed[j].Messages) /\ j <= m
              IN /\ Cardinality({t \in 1..Len(result.Tabs) :
                                   result.Tabs[t].ID = parsed[i].ID}) = 1
                 /\ \E t \in 1..Len(result.Tabs) : result.Tabs[t] = parsed[richest]

\* C5: the conversations returned by one read of a workspace have pairwise
\* different ids.
IdsUniquePerRead ==
  (result.op = "GetChatData" /\ ~result.err) =>
    \A i, j \in 1..Len(result.Tabs) : result.Tabs[i].ID = result.Tabs[j].ID => i = j

\* the prompts of a stored prompt-list value
PromptsOf(value) == IF value.shape = "array" THEN value.items ELSE <<value.item>>

\* C9: when the title map taken from the composer key has exactly one entry
\* and the prompt-list key holds at least one prompt, the read returns the
\* conversation made from the prompt list with that entry's title.
SingleHintTitlesPromptChat ==
  (result.op = "GetChatData" /\ ~result.err) =>
    LET workspace == storage.Entries[result.workspace]
        hints == composerTitlesOf(workspace)
    IN (/\ Cardinality(DOMAIN hints) = 1
        /\ Found(workspace, PromptsKey)
        /\ workspace.Items[PromptsKey].shape \in {"array", "object"}
        /\ PromptsOf(workspace.Items[PromptsKey]) # <<>>)
       => \E t \in 1..Len(result.Tabs) :
            /\ result.Tabs[t].ID = "ai-service-" \o ToString(clock)
            /\ Len(result.Tabs[t].Messages) = Len(PromptsOf(workspace.Items[PromptsKey]))
            /\ \A id \in DOMAIN hints : result.Tabs[t].Title = hints[id]

\* a read of a workspace with one named composer and a prompt list, whose
\* prompt conversation carries the composer's name
PromptChatTitledByHint ==
  /\ result.op = "GetChatData"
  /\ ~result.err
  /\ Cardinality(DOMAIN composerTitlesOf(storage.Entries[result.workspace])) = 1
  /\ \E t \in 1..Len(result.Tabs) :
       /\ result.Tabs[t].ID = "ai-service-" \o ToString(clock)
       /\ result.Tabs[t].Title = TitleMine

\* the conversations a call on the reader returned
ReturnedConversations ==
  IF result.op = "GetChatData" THEN {result.Tabs[i] : i \in 1..Len(result.Tabs)}
  ELSE IF result.op \in {"GetLatestChat", "GetChatByID"}
  THEN {result.tab[i] : i \in 1..Len(result.tab)}
  ELSE IF result.op \in {"ListAllChats", "SearchChats"}
  THEN {result.chats[i] : i \in 1..Len(result.chats)}
  ELSE {}

\* C11: every conversation returned by GetChatData, GetLatestChat,
\* GetChatByID, ListAllChats or SearchChats has a non-empty title field.
TitleFieldNeverEmpty ==
  \A chat \in ReturnedConversations : chat.Title # <<>>

\* the conversations the generation-log parser can make of the workspace's
\* aiService.generations value
GeneratedFor(workspace) ==
  IF Found(workspace, GenerationsKey)
  THEN {r.tabs : r \in parseAIServiceGenerations(workspace.Items[GenerationsKey],
                                                 composerTitlesOf(workspace))}
  ELSE {<<>>}

\* C12: the result of reading a workspace is made of the conversations of the
\* chat-data key, then those of aiService.prompts, then those of
\* aiService.generations, then those of composer.composerData.
FourKeysInOrder ==
  (result.op = "GetChatData" /\ ~result.err) =>
    LET workspace == storage.Entries[result.workspace]
        hints == composerTitlesOf(workspace)
    IN \E order \in Orders(DOMAIN hints), generated \in GeneratedFor(workspace) :
         result.Tabs = keyTabs(workspace, ChatDataKey, hints, clock, order)
                         \o keyTabs(workspace, PromptsKey, hints, clock, order)
                         \o generated
                         \o keyTabs(workspace, ComposerKey, hints, clock, order)

\* the conversations the parser of one key makes of the workspace's value
\* under that key, none when the key is absent
ParsedUnder(workspace, key, order) ==
  keyTabs(workspace, key, composerTitlesOf(workspace), clock, order)

Unusable(workspace, key) ==
  \/ key \notin DOMAIN workspace.Items
  \/ workspace.Items[key].shape \notin
       (IF key = PromptsKey THEN {"array", "object"} ELSE {"object"})

\* the workspace with the row of the key deleted from its store
Without(workspace, key) ==
  [workspace EXCEPT !.Items = [k \in (DOMAIN workspace.Items) \ {key} |-> workspace.Items[k]]]

\* C14: GetChatData returns an error exactly when the store cannot be opened;
\* otherwise, for every key that is absent or whose value has no accepted
\* shape, the result is a result of reading the same store without that key:
\* the key contributes nothing and the other keys' conversations are as they
\* would be without it.
BadKeysContributeNothing ==
  result.op = "GetChatData" =>
    LET workspace == storage.Entries[result.workspace]
    IN /\ result.err <=> ~workspace.Opens
       /\ ~result.err =>
            \A k \in 1..Len(chatKeys) :
              Unusable(workspace, chatKeys[k]) =>
                \E r \in GetChatData(Without(workspace, chatKeys[k]), clock) :
                  ~r.err /\ r.Tabs = result.Tabs

\* a read that returns conversations from a store one of whose keys holds a
\* value that is not JSON
ReadPastMalformedKey ==
  /\ result.op = "GetChatData"
  /\ ~result.err
  /\ result.Tabs # <<>>
  /\ \E k \in 1..Len(chatKeys) :
       /\ Found(storage.Entries[result.workspace], chatKeys[k])
       /\ storage.Entries[result.workspace].Items[chatKeys[k]].shape = "invalid"

\* the positions in workspaces of the stores modified last
LatestOf(workspaces) ==
  {k \in 1..Len(workspaces) :
     \A j \in 1..Len(workspaces) : workspaces[j].ModTime <= workspaces[k].ModTime}

\* C15: GetLatestChat reads a workspace whose store was modified last; when
\* the read gives conversations it returns one of them whose timestamp no
\* other of them exceeds, and when the read gives none it returns an error,
\* whatever the other workspaces hold.
LatestChatOfLatestWorkspace ==
  result.op = "GetLatestChat" =>
    LET found == FindWorkspaces(storage)
        workspaces == found.workspaces
    IN IF found.err \/ workspaces = <<>> THEN result.err
       ELSE \E k \in LatestOf(workspaces) :
              \E chatData \in GetChatData(workspaces[k], clock) :
                IF chatData.err \/ chatData.Tabs = <<>> THEN result.err
                ELSE /\ ~result.err
                     /\ \E t \in 1..Len(chatData.Tabs) : chatData.Tabs[t] = result.tab[1]
                     /\ \A t \in 1..Len(chatData.Tabs) :
                          chatData.Tabs[t].Timestamp <= result.tab[1].Timestamp

\* GetLatestChat fails on a workspace that yields no conversation, modified
\* after a workspace that holds conversations
LatestWorkspaceEmpty ==
  /\ result.op = "GetLatestChat"
  /\ result.err
  /\ LET workspaces == FindWorkspaces(storage).workspaces
     IN /\ \A k \in LatestOf(workspaces) :
             workspaces[k].Opens /\ \A r \in GetChatData(workspaces[k], clock) : r.Tabs = <<>>
        /\ \E j \in 1..Len(workspaces) :
             \E r \in GetChatData(workspaces[j], clock) : ~r.err /\ r.Tabs # <<>>

\* GetLatestChat returns the newest conversation of the workspace modified
\* last, which is neither the first workspace of the directory nor the first
\* conversation of the read, while an older workspace holds conversations too
LatestChatPicked ==
  /\ result.op = "GetLatestChat"
  /\ ~result.err
  /\ LET workspaces == FindWorkspaces(storage).workspaces
     IN /\ 1 \notin LatestOf(workspaces)
        /\ \E r \in GetChatData(workspaces[1], clock) : ~r.err /\ r.Tabs # <<>>
        /\ \E k \in LatestOf(workspaces) :
             \E r \in GetChatData(workspaces[k], clock) :
               /\ Len(r.Tabs) >= 2
               /\ r.Tabs[1] # result.tab[1]
               /\ \E t \in 2..Len(r.Tabs) : r.Tabs[t] = result.tab[1]

\* C16: a reader whose path names a readable root directory lists without
\* error, and so does a reader whose path names one store file: ListAllChats,
\* SearchChats and GetLatestChat then return no error and only conversations
\* read from that file, ListAllChats all of them.
PathOverrideToStoreFile ==
  /\ (storage.Readable /\ result.op \in {"ListAllChats", "SearchChats"}) => ~result.err
  /\ (storage.File # <<>> /\ result.op \in {"ListAllChats", "SearchChats", "GetLatestChat"}) =>
       /\ ~result.err
       /\ \E r \in GetChatData(storage.File[1], clock) :
            /\ \A chat \in ReturnedConversations :
                 \E t \in 1..Len(r.Tabs) : r.Tabs[t].ID = chat.ID
            /\ result.op = "ListAllChats" => Len(result.chats) = Len(r.Tabs)

\* the value a call on the reader returned is empty: no workspace, no
\* conversation
ReturnedNothing ==
  \/ result.op = "FindWorkspaces" /\ result.workspaces = <<>>
  \/ result.op = "GetLatestWorkspace" /\ result.workspace = <<>>
  \/ result.op \in {"GetLatestChat", "GetChatByID"} /\ result.tab = <<>>
  \/ result.op = "ListAllChats" /\ result.chats = <<>>

\* C17: whenever FindWorkspaces, GetLatestWorkspace, GetLatestChat,
\* GetChatByID or ListAllChats has nothing to return, it returns an error.
EmptyResultIsError ==
  ReturnedNothing => result.err

\* text contains substr when letters are compared without regard to case
ContainsFolded(text, substr) ==
  \E i \in 0..(Len(text) - Len(substr)) :
    SubSeq(toLower(text), i + 1, i + Len(substr)) = toLower(substr)

\* a listed conversation without the creation time, which rendering fills in
Listed(chat) ==
  [ID |-> chat.ID, Title |-> chat.Title, Messages |-> chat.Messages,
   Timestamp |-> chat.Timestamp, WorkspacePath |-> chat.WorkspacePath,
   WorkspaceName |-> chat.WorkspaceName]

\* C18: SearchChats returns, in the order of the listing, exactly the
\* conversations of a ListAllChats listing whose display title or rendered
\* transcript contains the query, letters compared without regard to case.
SearchIsExactFilter ==
  (result.op = "SearchChats" /\ ~result.err) =>
    \E all \in ListAllChats(storage, clock) :
      LET Matches(chat) == \/ ContainsFolded(GetDisplayTitle(chat), result.query)
                           \/ ContainsFolded(ToMarkdown(chat), result.query)
          matching == SelectSeq(all.chats, Matches)
      IN /\ ~all.err
         /\ [i \in 1..Len(result.chats) |-> Listed(result.chats[i])]
              = [i \in 1..Len(matching) |-> Listed(matching[i])]

\* the head sessions, stored without messages, of the workspace's composer value
BareHeads(workspace) ==
  IF Found(workspace, ComposerKey) /\ workspace.Items[ComposerKey].shape = "object"
  THEN LET all == workspace.Items[ComposerKey].allComposers
       IN {all[k] : k \in {j \in 1..Len(all) : IsHead(all[j]) /\ all[j].Messages = <<>>}}
  ELSE {}

\* C19: every conversation returned by reading a workspace has at least one
\* message, and every head composer session stored without messages is
\* returned as a conversation with exactly one message, of role system,
\* stamped with the session's creation time.
NoConversationWithoutMessages ==
  (result.op = "GetChatData" /\ ~result.err) =>
    /\ \A t \in 1..Len(result.Tabs) : Len(result.Tabs[t].Messages) > 0
    /\ \A composer \in BareHeads(storage.Entries[result.workspace]) :
         \E t \in 1..Len(result.Tabs) :
           /\ result.Tabs[t].ID = composer.ComposerID
           /\ Len(result.Tabs[t].Messages) = 1
           /\ result.Tabs[t].Messages[1].Role = RoleSystem
           /\ result.Tabs[t].Messages[1].Timestamp = composer.CreatedAt

\* C28: an id that ListAllChats reported, passed to GetChatByID over the same
\* stores at any later time, yields the listed conversation: same title and
\* same messages.
ListedChatFoundAgain ==
  result.op = "GetChatByID after ListAllChats" =>
    /\ ~result.err
    /\ result.tab[1].Title = result.listed.Title
    /\ result.tab[1].Messages = result.listed.Messages

(***************************************************************************)
(* Properties of the parsers and of the naming step (ParserSpec)           *)
(***************************************************************************)
ParsedPrompts ==
  /\ result.op = "parseAIServicePromptsWithTitles"
  /\ ~result.err
  /\ result.tabs # <<>>

ParsedGenerations ==
  /\ result.op = "parseAIServiceGenerations"
  /\ ~result.err

\* the role the markers of a content give, <<>> when it holds no marker
MarkerRole(content) ==
  IF containsAssistantMarkers(content) THEN RoleAssistant
  ELSE IF containsUserMarkers(content) THEN RoleUser
  ELSE <<>>

\* the records of a generation-log value a message was made from
SourcesOf(message) ==
  {gen \in {result.value.items[i] : i \in 1..Len(result.value.items)} :
     gen.GenerationUUID = message.ID}

\* the messages of all conversations of a parser result
MessagesOf(tabs) ==
  UNION {{tabs[t].Messages[m] : m \in 1..Len(tabs[t].Messages)} : t \in 1..Len(tabs)}

\* C6: in a prompt list without explicit roles, a message whose content holds
\* a marker has the role of that marker, and any other message has role user
\* at an even index and role assistant at an odd index.
PromptRolesAlternateUnlessMarked ==
  (ParsedPrompts /\ \A k \in 1..Len(PromptsOf(result.value)) :
                      PromptsOf(result.value)[k].Role = <<>>) =>
    \A k \in 1..Len(PromptsOf(result.value)) :
      LET content == PromptsOf(result.value)[k].Text
      IN result.tabs[1].Messages[k].Role =
           IF MarkerRole(content) # <<>> THEN MarkerRole(content)
           ELSE IF (k - 1) % 2 = 0 THEN RoleUser ELSE RoleAssistant

\* C7: in both parsers, a message made from a record without explicit role
\* whose content holds an assistant marker is assistant, and one whose content
\* holds a user marker and no assistant marker is user, whatever its length.
MarkersPrecedeLength ==
  /\ ParsedPrompts =>
       \A k \in 1..Len(PromptsOf(result.value)) :
         LET prompt == PromptsOf(result.value)[k]
         IN (prompt.Role = <<>> /\ MarkerRole(prompt.Text) # <<>>) =>
              result.tabs[1].Messages[k].Role = MarkerRole(prompt.Text)
  /\ ParsedGenerations =>
       \A message \in MessagesOf(result.tabs) :
         \A gen \in SourcesOf(message) :
           (gen.Role = <<>> /\ MarkerRole(gen.TextDescription) # <<>>) =>
             message.Role = MarkerRole(gen.TextDescription)

\* C8: a message made from a prompt or from a generation record that carries
\* a non-empty explicit role has exactly that role.
ExplicitRoleIsKept ==
  /\ ParsedPrompts =>
       \A k \in 1..Len(PromptsOf(result.value)) :
         PromptsOf(result.value)[k].Role # <<>> =>
           result.tabs[1].Messages[k].Role = PromptsOf(result.value)[k].Role
  /\ ParsedGenerations =>
       \A message \in MessagesOf(result.tabs) :
         \A gen \in SourcesOf(message) :
           gen.Role # <<>> => message.Role = gen.Role

NamedBareChat ==
  /\ result.op = "generateChatMemoryName"
  /\ result.chatTab.Title = <<>>
  /\ result.chatTab.Messages = <<>>

\* C10 as stated: a conversation without title and without messages has the
\* display title "Untitled Chat" and the memory name "Untitled Chat".
BareChatNamedUntitled ==
  NamedBareChat => result.title = UntitledChat /\ result.name = UntitledChat

\* C10: a conversation without title and without messages has the display
\* title "Untitled Chat"; its memory name is "Development Session" followed
\* by the day of its timestamp when the timestamp is positive, and "Cursor
\* Chat Session" otherwise.
BareChatNamedBySession ==
  NamedBareChat =>
    /\ result.title = UntitledChat
    /\ result.name =
         IF result.chatTab.Timestamp > 0
         THEN <<"D","e","v","e","l","o","p","m","e","n","t"," ","S","e","s","s","i","o","n"," ">>
                \o Digits((result.chatTab.Timestamp \div 1000) \div SecondsPerDay)
         ELSE <<"C","u","r","s","o","r"," ","C","h","a","t"," ","S","e","s","s","i","o","n">>

\* a conversation without title and messages, stamped on a day after the
\* epoch's first, has been named
BareChatNamed ==
  /\ NamedBareChat
  /\ result.chatTab.Timestamp >= 1000 * SecondsPerDay

ParsedByAnyParser ==
  /\ result.op \in {"parseAIServicePromptsWithTitles", "parseAIServiceGenerations",
                    "parseComposerData"}
  /\ ~result.err

\* C20: every conversation with at least one message that the prompt-list,
\* generation-log or composer parser returns carries the timestamp of its last
\* message.
TimestampIsLastMessage ==
  ParsedByAnyParser =>
    \A t \in 1..Len(result.tabs) :
      Len(result.tabs[t].Messages) > 0 =>
        result.tabs[t].Timestamp
          = result.tabs[t].Messages[Len(result.tabs[t].Messages)].Timestamp

\* C21: in every conversation a parser returns, no message carries a smaller
\* timestamp than the message before it.
MessageTimestampsAscend ==
  ParsedByAnyParser =>
    \A t \in 1..Len(result.tabs) :
      \A m \in 1..(Len(result.tabs[t].Messages) - 1) :
        result.tabs[t].Messages[m].Timestamp <= result.tabs[t].Messages[m + 1].Timestamp

(***************************************************************************)
(* Properties of the file store (StorageSpec)                              *)
(***************************************************************************)
\* C22: Get returns an error whenever no memory with the id is stored, be it
\* an id that was never created or one whose memory was deleted.
GetOfMissingIdFails ==
  (result.op = "Get" /\ result.id \notin DOMAIN memoriesDir) => result.err

\* C23: no successful Create overwrites an earlier memory: the id it returns
\* is not the id of a stored memory, so that List grows by one with every
\* successful Create.
CreateNeverOverwrites ==
  [][(result'.op = "Create" /\ Len(indexFile') > Len(indexFile))
       => /\ result'.memory[1].ID \notin DOMAIN memoriesDir
          /\ Len(List(memoriesDir').memories) = Len(List(memoriesDir).memories) + 1]_vars

\* the index lists exactly the ids of the stored memories, each id once, with
\* the name and the labels of the stored memory
IndexMatchesFiles(dir, index) ==
  /\ {index[i].ID : i \in 1..Len(index)} = DOMAIN dir
  /\ \A i, j \in 1..Len(index) : index[i].ID = index[j].ID => i = j
  /\ \A i \in 1..Len(index) :
       index[i].ID \in DOMAIN dir =>
         /\ index[i].Name = dir[index[i].ID].Name
         /\ index[i].Labels = dir[index[i].ID].Labels

\* C30: after every operation the index matches the stored files, and a
\* Delete of an id that is not stored fails and changes neither.
IndexFollowsFiles ==
  [][/\ IndexMatchesFiles(memoriesDir', indexFile')
     /\ (result'.op = "Delete" /\ result' # result /\ result'.id \notin DOMAIN memoriesDir)
          => (result'.err /\ UNCHANGED <<memoriesDir, indexFile>>)]_vars

\* the role the length rule of C24 gives
RoleByLength(content) == IF Len(content) > 200 THEN RoleAssistant ELSE RoleUser

\* C24: in both parsers, a message made from a record without explicit role
\* whose content holds no marker is assistant exactly when the content is
\* longer than 200 characters, and user otherwise.
RoleFollowsLengthOf200 ==
  /\ ParsedPrompts =>
       \A k \in 1..Len(PromptsOf(result.value)) :
         LET prompt == PromptsOf(result.value)[k]
         IN (prompt.Role = <<>> /\ MarkerRole(prompt.Text) = <<>>) =>
              result.tabs[1].Messages[k].Role = RoleByLength(prompt.Text)
  /\ ParsedGenerations =>
       \A message \in MessagesOf(result.tabs) :
         \A gen \in SourcesOf(message) :
           (gen.Role = <<>> /\ MarkerRole(gen.TextDescription) = <<>>) =>
             message.Role = RoleByLength(gen.TextDescription)

\* the chat-type records of the parsed generation log
ChatRecords ==
  {gen \in {result.value.items[i] : i \in 1..Len(result.value.items)} :
     gen.Type = "composer"}

\* the grouping key of a record: its conversation id, or its own generation
\* UUID when the conversation id is empty
GroupingKey(gen) ==
  IF gen.ConversationID # "" THEN gen.ConversationID ELSE gen.GenerationUUID

\* the UUIDs of the chat-type records of one group that have a description
DescribedIn(key) ==
  {gen.GenerationUUID : gen \in {g \in ChatRecords :
                                   GroupingKey(g) = key /\ g.TextDescription # <<>>}}

MessageIDs(tab) == {tab.Messages[m].ID : m \in 1..Len(tab.Messages)}

\* C25: the generation parser returns one conversation for every grouping key
\* whose chat-type records include a described one, made of exactly those
\* records, and nothing else; the messages of a conversation ascend in time.
OneConversationPerGroup ==
  (ParsedGenerations /\ result.value.shape = "array") =>
    LET keys == {key \in {GroupingKey(gen) : gen \in ChatRecords} : DescribedIn(key) # {}}
    IN /\ Len(result.tabs) = Cardinality(keys)
       /\ \A key \in keys :
            \E t \in 1..Len(result.tabs) :
              /\ MessageIDs(result.tabs[t]) = DescribedIn(key)
              /\ Len(result.tabs[t].Messages) = Cardinality(DescribedIn(key))
       /\ \A t \in 1..Len(result.tabs) :
            \A m \in 1..(Len(result.tabs[t].Messages) - 1) :
              result.tabs[t].Messages[m].Timestamp
                <= result.tabs[t].Messages[m + 1].Timestamp

\* two records of one group stored latest first come back as one conversation
\* of two messages, earliest first
GroupedAndSorted ==
  /\ ParsedGenerations
  /\ result.value.shape = "array"
  /\ Len(result.value.items) = 2
  /\ result.value.items[1].UnixMs > result.value.items[2].UnixMs
  /\ Len(result.tabs) = 1
  /\ Len(result.tabs[1].Messages) = 2
  /\ result.tabs[1].Messages[1].ID = result.value.items[2].GenerationUUID

\* a record of another type next to a chat-type record leaves one conversation
\* of one message
OtherTypeDropped ==
  /\ ParsedGenerations
  /\ result.value.shape = "array"
  /\ \E i \in 1..Len(result.value.items) : result.value.items[i].Type # "composer"
  /\ Len(result.tabs) = 1
  /\ Len(result.tabs[1].Messages) = 1

\* C29: generateChatLabels ends without a panic for every chat, and for a chat
\* that mentions two or more technical concepts the label technologies is the
\* first three of them (both, when there are two) joined by commas and the
\* label language is the first.
LabelsForEveryChat ==
  result.op = "generateChatMemoryName" =>
    LET concepts == ExtractTechnicalConcepts(result.chatTab)
        n == IF Len(concepts) < 3 THEN Len(concepts) ELSE 3
    IN /\ ~result.panic
       /\ Len(concepts) >= 2 =>
            /\ "technologies" \in DOMAIN result.labels
            /\ result.labels["technologies"] = Join(SubSeq(concepts, 1, n), <<",">>)
            /\ result.labels["language"] = concepts[1]

NamedChat == result.op = "generateChatMemoryName"

\* the content of the first user message that has content, <<>> without one
FirstUserContent(tab) ==
  LET users == {k \in 1..Len(tab.Messages) :
                  tab.Messages[k].Role = RoleUser /\ tab.Messages[k].Content # <<>>}
  IN IF users = {} THEN <<>>
     ELSE tab.Messages[CHOOSE k \in users : \A j \in users : k <= j].Content

\* s cut to at most n characters, the last three of them an ellipsis
CutTo(s, n) == IF Len(s) > n THEN SubSeq(s, 1, n - 3) \o <<".",".",".">> ELSE s

DevelopmentSession(tab) ==
  <<"D","e","v","e","l","o","p","m","e","n","t"," ","S","e","s","s","i","o","n"," ">>
    \o FormatDate(tab.Timestamp \div 1000)

\* a unique hint is the title of the conversation made from a prompt list
HintFirst ==
  (ParsedPrompts /\ Cardinality(DOMAIN result.composerTitles) = 1) =>
    \A id \in DOMAIN result.composerTitles :
      result.tabs[1].Title = result.composerTitles[id]

ShownTitle(tab) ==
  IF tab.Title # <<>> THEN tab.Title
  ELSE IF FirstUserContent(tab) # <<>> THEN CutTo(FirstUserContent(tab), 50)
  ELSE UntitledChat

\* the first sentence of the first user message that neither starts with "@"
\* nor has a first sentence of at most 10 characters; <<>> without one
FirstLongSentence(tab) ==
  LET sentence(k) == TrimSpace(firstSentenceOf(TrimSpace(tab.Messages[k].Content)))
      usable == {k \in 1..Len(tab.Messages) :
                   /\ tab.Messages[k].Role = RoleUser
                   /\ ~HasPrefix(TrimSpace(tab.Messages[k].Content), <<"@">>)
                   /\ Len(sentence(k)) > 10}
  IN IF usable = {} THEN <<>> ELSE sentence(CHOOSE k \in usable : \A j \in usable : k <= j)

ParsedPromptValue ==
  result.op \in {"parseAIServicePromptsWithTitles",
                 "parser.go: parseAIServicePromptsWithTitles"}

Panicked == "panic" \in DOMAIN result /\ result.panic

\* C27: an empty array under the prompt-list key gives no conversation, no
\* error and no crash; a single prompt object gives one conversation of one
\* message; an error is returned only for a value that is neither.
PromptValueShapesHandled ==
  ParsedPromptValue =>
    /\ (result.value.shape = "array" /\ result.value.items = <<>>) =>
         (~result.err /\ ~Panicked /\ result.tabs = <<>>)
    /\ result.value.shape = "object" =>
         (~result.err /\ ~Panicked /\ Len(result.tabs) = 1
            /\ Len(result.tabs[1].Messages) = 1)
    /\ result.err => result.value.shape \notin {"array", "object"}

====
